---------------------------- MODULE Spec2Model ----------------------------
(***************************************************************************)
(* KScriptRust: the single-pass compiler (compiler.rs), the bytecode VM     *)
(* (vm.rs), the heap and its collector (heap.rs) and the command-line       *)
(* driver (main.rs), as one state machine.                                  *)
(*                                                                          *)
(* Rust indices are kept as they are in the source (0-based); At(s, i)      *)
(* reads element i of a Vec modelled as a TLA+ sequence.  A Rust panic      *)
(* aborts the process: it is the outcome "panic" of the operation.          *)
(***************************************************************************)
EXTENDS Integers, Sequences, FiniteSets, TLC

VARIABLES
    build,            \* the build profile: "debug" (overflow checks) or "release" (wrapping)
    mode,             \* main.rs main: "batch" (one path argument) or "repl"
    pc,               \* position of the driver (run_file / run_prompt)
    input,            \* token lists still to be read: the file, or the REPL lines
    parser,           \* the Parser of run_file / run while it compiles
    had_error,        \* Parser.had_error of the last compile
    exit_code,        \* process exit code, -1 while the process runs
    result,           \* "none", or what the last execute() did: "running", "Ok", "RuntimeError", "panic"
    ip,               \* VM.ip
    stack,            \* VM.stack (a Vec: 256 slots, or none after clear())
    stack_top,        \* VM.stack_top
    callstack,        \* VM.callstack
    globals,          \* VM.globals: string hash -> Value
    heap,             \* VM.heap
    curr_func_idx,    \* VM.curr_func_idx
    open_upvalues,    \* VM.open_upvalues: head of the open list (a cell id, 0 for None)
    upvalues,         \* the Rc<RefCell<ObjUpvalue>> cells, by cell id
    init_string_hash, \* VM.init_string_hash
    ip_counter,       \* local ip_counter of VM::run
    hist              \* history of the run, for stating the properties

vars == <<build, mode, pc, input, parser, had_error, exit_code, result, ip, stack, stack_top,
          callstack, globals, heap, curr_func_idx, open_upvalues, upvalues,
          init_string_hash, ip_counter, hist>>

At(s, i) == s[i + 1]
Put(s, i, x) == [s EXCEPT ![i + 1] = x]
Max(a, b) == IF a >= b THEN a ELSE b

(***************************************************************************)
(* chunk.rs: opcodes                                                        *)
(***************************************************************************)
OpConstant == 0
OpNil == 1
OpTrue == 2
OpFalse == 3
OpPop == 4
OpGetLocal == 5
OpGetGlobal == 6
OpDefineGlobal == 7
OpSetLocal == 8
OpSetGlobal == 9
OpEqual == 10
OpGetUpvalue == 11
OpSetUpvalue == 12
OpGreater == 13
OpLess == 14
OpAdd == 15
OpSubtract == 16
OpMultiply == 17
OpDivide == 18
OpNot == 19
OpNegate == 20
OpPrint == 21
OpJumpIfFalse == 22
OpJump == 23
OpLoop == 24
OpCall == 25
OpClosure == 26
OpCloseValue == 27
OpReturn == 28
\* Opcodes the compiler and the VM use that the Opcode enum under src/ does not list.
OpGetProperty == 29
OpSetProperty == 30
OpClass == 31
OpMethod == 32
OpInvoke == 33

(***************************************************************************)
(* vm.rs, heap.rs, compiler.rs: constants                                   *)
(***************************************************************************)
CHECK_GC_INTERVAL == 5000
MAX_VALUE_STACK == 256
GC_FACTOR == 2
INITIAL_SIZE == 1048576
MAX_UPVALUE_COUNT == 256
\* mem::size_of_val of the allocated object (64-bit target) and of the
\* reference the free_* functions measure instead.
SizeOfString == 24
SizeOfFunction == 112
SizeOfNativeFn == 8
SizeOfClosure == 32
SizeOfClass == 56
SizeOfInstance == 40
SizeOfRef == 8
U8 == 256
U16 == 65536

(***************************************************************************)
(* value.rs, object.rs: Value and Object                                    *)
(***************************************************************************)
Number(n) == [t |-> "Number", v |-> n]
Bool(b) == [t |-> "Bool", v |-> IF b THEN 1 ELSE 0]
Nil == [t |-> "Nil", v |-> 0]
StringHash(h) == [t |-> "StringHash", v |-> h]
FunctionIndex(i) == [t |-> "FunctionIndex", v |-> i]
NativeFnIndex(i) == [t |-> "NativeFnIndex", v |-> i]
ClosureIndex(i) == [t |-> "ClosureIndex", v |-> i]
ClassIndex(i) == [t |-> "ClassIndex", v |-> i]
InstanceIndex(i) == [t |-> "InstanceIndex", v |-> i]
BoundMethodIndex(i) == [t |-> "BoundMethodIndex", v |-> i]

\* impl PartialEq for Value / for Object: a native function handle has no arm.
ValueEq(a, b) ==
    /\ a.t = b.t
    /\ a.t \in {"Number", "Bool", "Nil", "StringHash", "FunctionIndex",
                "ClosureIndex", "ClassIndex", "InstanceIndex"}
    /\ a.v = b.v

(***************************************************************************)
(* utils.rs hash_string: the strings that occur, each with its own hash.    *)
(***************************************************************************)
StringTable ==
    <<"init", "clock", "writeFile", "appendFile", "str",
      "a", "b", "c", "x", "y", "f", "g", "o", "m", "n", "r", "s",
      "outer", "inner", "set", "get", "A", "bar", "hi", "ab", "xy", "i", "z",
      "1", "2", "3", "var", "v", "w", "B", "this", "main">>

hash_string(s) == CHOOSE h \in 1..Len(StringTable) : StringTable[h] = s
get_string_text(h) == StringTable[h]

(***************************************************************************)
(* heap.rs: Heap                                                            *)
(***************************************************************************)
Chunk == [code |-> <<>>, constants |-> <<>>]
Function(name, arity) == [name |-> name, arity |-> arity, upvalue_count |-> 0, chunk |-> Chunk]

HeapNew ==
    [bytes_allocated |-> 0, next_gc |-> INITIAL_SIZE, strings |-> {}, anonymous |-> 0,
     functions |-> <<>>, native_fns |-> <<>>, closures |-> <<>>,
     classes |-> <<>>, instances |-> <<>>, bound_methods |-> <<>>]

alloc_string(h, s) ==
    IF hash_string(s) \in h.strings THEN h
    ELSE [h EXCEPT !.bytes_allocated = @ + SizeOfString,
                   !.strings = @ \cup {hash_string(s)}]

alloc_function(h, function) ==
    [h EXCEPT !.bytes_allocated = @ + SizeOfFunction,
              !.functions = Append(@, function)]

alloc_nativefn(h, name) ==
    [h EXCEPT !.bytes_allocated = @ + SizeOfNativeFn,
              !.native_fns = Append(@, name)]

alloc_closure(h, closure) ==
    [h EXCEPT !.bytes_allocated = @ + SizeOfClosure,
              !.closures = Append(@, closure)]

alloc_class(h, class) ==
    [h EXCEPT !.bytes_allocated = @ + SizeOfClass,
              !.classes = Append(@, class)]

alloc_instance(h, instance) ==
    [h EXCEPT !.bytes_allocated = @ + SizeOfInstance,
              !.instances = Append(@, instance)]

alloc_bound_method(h, bound) ==
    [h EXCEPT !.bound_methods = Append(@, bound)]

\* The strings of the source file that the run never names: n further string
\* literals, in functions that are declared inside a function and never called.
alloc_anonymous_strings(h, n) ==
    [h EXCEPT !.bytes_allocated = @ + n * SizeOfString, !.anonymous = @ + n]

\* Heap::clear: native_fns (and the bound methods) are not cleared.
HeapClear(h) ==
    [h EXCEPT !.strings = {}, !.anonymous = 0, !.functions = <<>>, !.classes = <<>>,
              !.closures = <<>>, !.instances = <<>>,
              !.bytes_allocated = 0, !.next_gc = INITIAL_SIZE]

(***************************************************************************)
(* token.rs: tokens.  The scanner's output is the compiler's input.         *)
(***************************************************************************)
\* The text of a token that is a keyword or punctuation.
Lexeme(type) ==
    CASE type = "LeftParen" -> "("   [] type = "RightParen" -> ")"
      [] type = "LeftBrace" -> "{"   [] type = "RightBrace" -> "}"
      [] type = "Comma" -> ","       [] type = "Dot" -> "."
      [] type = "Minus" -> "-"       [] type = "MinusEqual" -> "-="
      [] type = "Plus" -> "+"        [] type = "PlusEqual" -> "+="
      [] type = "Semicolon" -> ";"   [] type = "Star" -> "*"
      [] type = "Slash" -> "/"       [] type = "Bang" -> "!"
      [] type = "BangEqual" -> "!="  [] type = "Equal" -> "="
      [] type = "EqualEqual" -> "==" [] type = "Less" -> "<"
      [] type = "LessEqual" -> "<="  [] type = "Greater" -> ">"
      [] type = "GreaterEqual" -> ">="
      [] type = "And" -> "and"       [] type = "Class" -> "class"
      [] type = "False" -> "false"   [] type = "For" -> "for"
      [] type = "Fun" -> "fun"       [] type = "If" -> "if"
      [] type = "Else" -> "else"     [] type = "Nil" -> "nil"
      [] type = "Or" -> "or"         [] type = "Print" -> "print"
      [] type = "Super" -> "super"   [] type = "True" -> "true"
      [] type = "Var" -> "var"       [] type = "While" -> "while"
      [] type = "Extend" -> "extend" [] type = "Return" -> "return"
      [] type = "Eof" -> ""

Tok(type) == [type |-> type, lexeme |-> Lexeme(type), literal |-> "", num |-> 0]
Id(name) == [type |-> "Identifier", lexeme |-> name, literal |-> "", num |-> 0]
Num(n) == [type |-> "Number", lexeme |-> "", literal |-> "", num |-> n]
Str(s) == [type |-> "String", lexeme |-> "", literal |-> s, num |-> 0]
This == [type |-> "This", lexeme |-> "this", literal |-> "", num |-> 0]
Eof == Tok("Eof")

(***************************************************************************)
(* compiler.rs: Parser.  Every function of the parser is an operator from   *)
(* the parser's state to its state after the call; a function's return      *)
(* value is left in field ret.                                              *)
(***************************************************************************)
NoIndex == -1                       \* usize::MAX, "null"
PrecNone == 0
PrecAssignment == 1
PrecOr == 2
PrecAnd == 3
PrecEquality == 4
PrecComparison == 5
PrecTerm == 6
PrecFactor == 7
PrecUnary == 8
PrecCall == 9

Local(name, depth) == [name |-> name, depth |-> depth, is_captured |-> FALSE]

CompilerNew(enclosing, function_idx, function_type) ==
    [enclosing |-> enclosing, function_idx |-> function_idx,
     function_type |-> function_type, scope_depth |-> 0,
     locals |-> <<Local(IF function_type \in {"Method", "Initializer"} THEN "this" ELSE "", 0)>>,
     upvalues |-> <<>>]

ParserNew(h, tokens) ==
    [tokens |-> tokens, i |-> 0, panic_mode |-> FALSE, had_error |-> FALSE,
     compilers |-> <<>>, cur |-> NoIndex, current_class |-> 0, heap |-> h,
     status |-> "ok", ret |-> 0, errors |-> <<>>, unconsumed_equal |-> FALSE,
     return_main |-> FALSE, return_init_value |-> FALSE, this_outside |-> FALSE,
     returns |-> {},
     operand_differs |-> FALSE,
     added |-> [existing |-> NoIndex, index |-> 0, unchanged |-> TRUE], jumps |-> {}, patched |-> {}, events |-> <<>>,
     scope_starts |-> <<>>, scopes |-> {}, far |-> {},
     todo |-> <<>>]

Rule(prefix, infix, precedence) == [prefix |-> prefix, infix |-> infix, precedence |-> precedence]

\* Parser::new: parse_rules (a token type without an entry has no rule).
parse_rules(type) ==
    CASE type = "LeftParen" -> Rule("Grouping", "Call", PrecCall)
      [] type = "Dot" -> Rule("None", "Dot", PrecCall)
      [] type = "Minus" -> Rule("Unary", "Binary", PrecTerm)
      [] type = "Plus" -> Rule("None", "Binary", PrecTerm)
      [] type = "Slash" -> Rule("None", "Binary", PrecFactor)
      [] type = "Star" -> Rule("None", "Binary", PrecFactor)
      [] type = "Bang" -> Rule("Unary", "None", PrecNone)
      [] type = "EqualEqual" -> Rule("None", "Binary", PrecEquality)
      [] type = "BangEqual" -> Rule("None", "Binary", PrecEquality)
      [] type = "Equal" -> Rule("None", "Binary", PrecEquality)
      [] type = "Greater" -> Rule("None", "Binary", PrecComparison)
      [] type = "GreaterEqual" -> Rule("None", "Binary", PrecComparison)
      [] type = "Less" -> Rule("None", "Binary", PrecComparison)
      [] type = "LessEqual" -> Rule("None", "Binary", PrecComparison)
      [] type = "Identifier" -> Rule("Variable", "None", PrecNone)
      [] type = "String" -> Rule("String", "None", PrecNone)
      [] type = "Number" -> Rule("Number", "None", PrecNone)
      [] type = "And" -> Rule("None", "And", PrecAnd)
      [] type = "Or" -> Rule("None", "Or", PrecOr)
      [] type = "False" -> Rule("Literal", "None", PrecNone)
      [] type = "This" -> Rule("This", "None", PrecNone)
      [] type = "True" -> Rule("Literal", "None", PrecNone)
      [] type = "Nil" -> Rule("Literal", "None", PrecNone)
      [] OTHER -> Rule("None", "None", PrecNone)

ParserPanic(p) == [p EXCEPT !.status = "panic"]
Ret(p, r) == [p EXCEPT !.ret = r]

peek(p) == At(p.tokens, p.i)
is_at_end(p) == peek(p).type = "Eof"
check(p, type) == ~is_at_end(p) /\ peek(p).type = type
\* previous: tokens.get(curr_token_index - 1).unwrap() aborts at index 0.
previous(p) == At(p.tokens, p.i - 1)
current_compiler(p) == At(p.compilers, p.cur)
current_function(p) == At(p.heap.functions, current_compiler(p).function_idx)
current_scope_depth(p) == current_compiler(p).scope_depth

advance(p) ==
    IF p.status # "ok" THEN p
    ELSE IF ~is_at_end(p) THEN [p EXCEPT !.i = @ + 1]
    ELSE IF p.i = 0 THEN ParserPanic(p) ELSE p

\* error_at that reports in panic mode too.
error_at_always(p, message) ==
    IF p.status # "ok" THEN p
    ELSE [p EXCEPT !.panic_mode = TRUE, !.had_error = TRUE,
                   !.errors = Append(@, message), !.events = Append(@, "error")]

\* events: "error" for a reported error, "swallowed" for one that panic mode
\* suppressed, and where each synchronize stopped.
error_at(p, message) ==
    IF p.status # "ok" THEN p
    ELSE IF p.panic_mode THEN [p EXCEPT !.events = Append(@, "swallowed")]
    ELSE [p EXCEPT !.panic_mode = TRUE, !.had_error = TRUE,
                   !.errors = Append(@, message), !.events = Append(@, "error")]

error_at_current(p, message) == error_at(p, message)

error(p, message) ==
    IF p.status # "ok" THEN p
    ELSE IF p.i = 0 THEN ParserPanic(p) ELSE error_at(p, message)

consume(p, type, message) ==
    IF p.status # "ok" THEN p
    ELSE IF peek(p).type = type THEN advance(p) ELSE error_at_current(p, message)

\* consume after a call whose result (ret) the caller still needs.
consume_keep(q, type, message) == Ret(consume(q, type, message), q.ret)

match_token_type(p, type) ==
    IF p.status # "ok" THEN Ret(p, FALSE)
    ELSE IF ~check(p, type) THEN Ret(p, FALSE) ELSE Ret(advance(p), TRUE)

emit_byte(p, byte) ==
    IF p.status # "ok" THEN p
    ELSE IF p.i = 0 THEN ParserPanic(p)
    ELSE [p EXCEPT !.heap.functions[current_compiler(p).function_idx + 1].chunk.code = Append(@, byte)]

emit_bytes(p, byte1, byte2) == emit_byte(emit_byte(p, byte1), byte2)

\* emit_bytes(byte1, x) where x is what the call before returned.
emit_bytes_ret(q, byte1) == emit_bytes(q, byte1, q.ret)

\* emit_return without the arm of the initializer: nil is returned.
emit_return_nil(p) ==
    IF p.status # "ok" THEN p ELSE emit_byte(emit_byte(p, OpNil), OpReturn)

emit_return(p) ==
    IF p.status # "ok" THEN p
    ELSE emit_byte(IF current_compiler(p).function_type = "Initializer"
                   THEN emit_bytes(p, OpGetLocal, 0)
                   ELSE emit_byte(p, OpNil),
                   OpReturn)

\* emit_jump: `return self.current_function().chunk.code.len() - 2`.
\* jumps: per function, the positions of the operands that emit_jump wrote.
emit_jump_offset(q) ==
    IF q.status # "ok" THEN q
    ELSE Ret([q EXCEPT !.jumps = @ \cup {<<current_compiler(q).function_idx,
                                           Len(current_function(q).chunk.code) - 2>>}],
             (Len(current_function(q).chunk.code) - 2) % U8)

emit_jump(p, instruction) ==
    emit_jump_offset(emit_byte(emit_byte(emit_byte(p, instruction), 255), 255))

\* Chunk::add_constants: the index of an equal constant, or of the new one, as u8.
add_constants(chunk, val) ==
    LET existing == {k \in 1..Len(chunk.constants) : ValueEq(chunk.constants[k], val)}
    IN  IF existing # {}
        THEN [chunk |-> chunk,
              index |-> ((CHOOSE k \in existing : \A j \in existing : k <= j) - 1) % U8]
        ELSE [chunk |-> [chunk EXCEPT !.constants = Append(@, val)],
              index |-> Len(chunk.constants) % U8]

\* make_constant, after add_constants stored the constant at `index`.
make_constant_index(q, index) ==
    Ret(IF index >= 255 THEN error_at_current(q, "Too many constants in one chunk") ELSE q,
        index)

make_constant_added(p, added) ==
    make_constant_index(
        [p EXCEPT !.heap.functions[current_compiler(p).function_idx + 1].chunk = added.chunk],
        added.index)

\* The position of the first constant of the pool that is equal to val.
position(constants, val) ==
    IF \E k \in 1..Len(constants) : ValueEq(constants[k], val)
    THEN (CHOOSE k \in 1..Len(constants) :
              /\ ValueEq(constants[k], val)
              /\ \A j \in 1..(k - 1) : ~ValueEq(constants[j], val)) - 1
    ELSE NoIndex

\* operand_differs: make_constant returned, without an error, a byte that is not
\* the index at which the pool holds the constant.
\* added: of the last call of add_constants, where the pool held an equal
\* constant before the call, what the call returned, and whether it left the
\* pool as it was.
make_constant_operand(p, added, value) ==
    make_constant_added(
        [p EXCEPT !.operand_differs =
            @ \/ (added.index < 255
                  /\ ~ValueEq(At(added.chunk.constants, added.index), value)),
                  !.added = [existing |-> position(current_function(p).chunk.constants, value),
                             index |-> added.index,
                             unchanged |-> added.chunk = current_function(p).chunk]],
        added)

make_constant(p, value) ==
    IF p.status # "ok" THEN p
    ELSE make_constant_operand(p, add_constants(current_function(p).chunk, value), value)

emit_constant(p, value) == emit_bytes_ret(make_constant(p, value), OpConstant)

\* emit_loop, after the OpLoop byte: the two bytes of the offset.
emit_loop_offset(q, offset) ==
    emit_byte(emit_byte(IF offset >= 65536 THEN error(q, "Loop body too large") ELSE q,
                        (offset \div 256) % 256),
              offset % 256)

\* far: the jumps whose distance is above 65535, and whether the call that
\* wrote the operand reported an error (or was in panic mode already); of
\* patch_jump, the calls with an offset at which emit_jump wrote a placeholder.
far_jump(q, p, function, distance) ==
    IF q.status # "ok" \/ distance <= 65535 THEN q
    ELSE [q EXCEPT !.far = @ \cup {[function |-> function, distance |-> distance,
                                     reported |-> Len(q.errors) > Len(p.errors)
                                                      \/ p.panic_mode]}]

emit_loop_operand(q, loop_start) ==
    IF q.status # "ok" THEN q
    ELSE far_jump(emit_loop_offset(q, Len(current_function(q).chunk.code) - loop_start + 2),
                  q, "emit_loop", Len(current_function(q).chunk.code) - loop_start + 2)

emit_loop(p, loop_start) == emit_loop_operand(emit_byte(p, OpLoop), loop_start)

\* patch_jump, after the check of the distance: the two bytes at `offset`.
\* patched: per function, the positions that patch_jump wrote.
patch_jump_write(q, offset, jump) ==
    IF q.status # "ok" THEN q
    ELSE [q EXCEPT !.heap.functions[current_compiler(q).function_idx + 1].chunk.code =
              Put(Put(@, offset, (jump \div 256) % 256), offset + 1, jump % 256),
                   !.patched = @ \cup {<<current_compiler(q).function_idx, offset>>}]

patch_jump_distance(p, offset, jump) ==
    patch_jump_write(IF jump >= 65535 THEN error(p, "Too much code to jump over") ELSE p,
                     offset, jump)

patch_jump(p, offset) ==
    IF p.status # "ok" THEN p
    ELSE far_jump(patch_jump_distance(p, offset,
                                      (Len(current_function(p).chunk.code) - offset - 2) % U16),
                  p, "patch_jump",
                  IF <<current_compiler(p).function_idx, offset>> \in p.jumps
                  THEN Len(current_function(p).chunk.code) - offset - 2 ELSE 0)

identifier_constant(p, token_name) ==
    IF p.status # "ok" THEN p
    ELSE make_constant([p EXCEPT !.heap = alloc_string(@, token_name)],
                       StringHash(hash_string(token_name)))

\* scope_starts: for each scope that is open, the compiler, its locals and the
\* length of its code when begin_scope was called.
begin_scope(p) ==
    IF p.status # "ok" THEN p
    ELSE [p EXCEPT !.compilers[p.cur + 1].scope_depth = @ + 1,
                   !.scope_starts = Append(@, [compiler |-> p.cur,
                                               locals |-> current_compiler(p).locals,
                                               offset |-> Len(current_function(p).chunk.code)])]

RECURSIVE end_scope_loop(_)
\* end_scope: the local popped after its OpCloseValue or OpPop is emitted.
end_scope_pop(q) ==
    IF q.status # "ok" THEN q
    ELSE end_scope_loop([q EXCEPT !.compilers[q.cur + 1].locals = SubSeq(@, 1, Len(@) - 1)])

\* An end_scope that leaves the locals of the scope in the list.
end_scope_loop_kept(p) ==
    IF p.status # "ok" THEN p
    ELSE LET locals == current_compiler(p).locals
         IN  IF Len(locals) > 0 /\ locals[Len(locals)].depth > current_scope_depth(p)
             THEN emit_byte(p, IF locals[Len(locals)].is_captured
                               THEN OpCloseValue ELSE OpPop)
             ELSE p

end_scope_loop(p) ==
    IF p.status # "ok" THEN p
    ELSE LET locals == current_compiler(p).locals
         IN  IF Len(locals) > 0 /\ locals[Len(locals)].depth > current_scope_depth(p)
             THEN end_scope_pop(emit_byte(p, IF locals[Len(locals)].is_captured
                                             THEN OpCloseValue ELSE OpPop))
             ELSE p

\* scopes: for each scope that end_scope has ended, the function, the length
\* of the code and the locals at begin_scope (entry, before), the locals that
\* were added since (declared), the bytes that end_scope emitted, and the
\* length of the code and the locals after it (exit, after).
end_scope_record(q, p) ==
    LET starts == {k \in 1..Len(p.scope_starts) : p.scope_starts[k].compiler = p.cur}
    IN  IF q.status # "ok" \/ starts = {} THEN q
        ELSE LET s == CHOOSE k \in starts : \A j \in starts : j <= k
                 start == p.scope_starts[s]
                 locals == current_compiler(p).locals
             IN  [q EXCEPT
                    !.scope_starts = SubSeq(@, 1, s - 1),
                    !.scopes = @ \cup
                        {[function |-> current_compiler(p).function_idx,
                          entry |-> start.offset,
                          exit |-> Len(current_function(q).chunk.code),
                          before |-> start.locals,
                          declared |-> SubSeq(locals, Len(start.locals) + 1, Len(locals)),
                          emitted |-> SubSeq(current_function(q).chunk.code,
                                             Len(current_function(p).chunk.code) + 1,
                                             Len(current_function(q).chunk.code)),
                          after |-> current_compiler(q).locals]}]

end_scope(p) ==
    IF p.status # "ok" THEN p
    ELSE end_scope_record(
             end_scope_loop([p EXCEPT !.compilers[p.cur + 1].scope_depth = @ - 1]), p)

\* end_compiler, after emit_return: back to the enclosing compiler.
end_compiler_leave(q) ==
    IF q.status # "ok" THEN q
    ELSE Ret([q EXCEPT !.cur = current_compiler(q).enclosing],
             current_compiler(q).function_idx)

end_compiler(p) == end_compiler_leave(emit_return(p))

mark_initialized(p) ==
    IF p.status # "ok" THEN p
    ELSE LET n == Len(current_compiler(p).locals)
         IN  IF n > 0
             THEN [p EXCEPT !.compilers[p.cur + 1].locals[n].depth = current_scope_depth(p)]
             ELSE p

define_variable(p, global) ==
    IF p.status # "ok" THEN p
    ELSE IF current_scope_depth(p) > 0 THEN mark_initialized(p)
    ELSE emit_bytes(p, OpDefineGlobal, global)

\* declare_variable: the loop over the locals, innermost first.
RECURSIVE declare_variable_loop(_, _, _)
declare_variable_loop(p, name, k) ==
    IF k = 0 \/ p.status # "ok" THEN p
    ELSE LET local == current_compiler(p).locals[k]
         IN  IF local.depth # -1 /\ local.depth < current_scope_depth(p) THEN p
             ELSE declare_variable_loop(
                      IF name = local.name
                      THEN error(p, "Already a variable of this name in this scope")
                      ELSE p, name, k - 1)

\* declare_variable, after the loop found no variable of this name: the new local.
declare_variable_add(q, name) ==
    IF q.status # "ok" THEN q
    ELSE [q EXCEPT !.compilers[q.cur + 1].locals = Append(@, Local(name, -1))]

declare_variable(p) ==
    IF p.status # "ok" THEN p
    ELSE IF current_scope_depth(p) = 0 THEN p
    ELSE IF p.i = 0 THEN ParserPanic(p)
    ELSE declare_variable_add(
             declare_variable_loop(p, previous(p).lexeme, Len(current_compiler(p).locals)),
             previous(p).lexeme)

\* parse_variable, after consume and declare_variable: ret is the constant of a global.
parse_variable_constant(q) ==
    IF q.status # "ok" THEN q
    ELSE IF current_scope_depth(q) > 0 THEN Ret(q, 0)
    ELSE IF q.i = 0 THEN ParserPanic(q)
    ELSE identifier_constant(q, previous(q).lexeme)

parse_variable(p, error_message) ==
    parse_variable_constant(declare_variable(consume(p, "Identifier", error_message)))

RECURSIVE synchronize_loop(_)
synchronize_loop(p) ==
    IF p.status # "ok" \/ is_at_end(p) THEN p
    ELSE IF previous(p).type = "Semicolon" THEN p
    ELSE IF peek(p).type \in {"Class", "For", "Fun", "If", "Print", "Return", "Var", "While"} THEN p
    ELSE synchronize_loop(advance(p))

\* Where synchronize returned: after a `;`, before a keyword that starts a
\* statement, or at the end of the tokens.
synchronize_stop(p) ==
    IF p.status # "ok" THEN p
    ELSE [p EXCEPT !.events = Append(@,
             IF previous(p).type = "Semicolon" THEN "semicolon"
             ELSE IF is_at_end(p) THEN "end"
             ELSE "keyword")]

synchronize(p) ==
    IF p.status # "ok" THEN p
    ELSE synchronize_stop(synchronize_loop(advance([p EXCEPT !.panic_mode = FALSE])))

RECURSIVE resolve_local_loop(_, _, _, _)
resolve_local_loop(p, compiler_idx, name, k) ==
    IF k = 0 THEN Ret(p, NoIndex)
    ELSE LET local == At(p.compilers, compiler_idx).locals[k]
         IN  IF name = local.name
             THEN Ret(IF local.depth = -1
                      THEN error(p, "Can't read a local variable in its own initializer.")
                      ELSE p,
                      k - 1)
             ELSE resolve_local_loop(p, compiler_idx, name, k - 1)

resolve_local(p, compiler_idx, name) ==
    resolve_local_loop(p, compiler_idx, name, Len(At(p.compilers, compiler_idx).locals))

add_upvalue(p, compiler_idx, index, is_local) ==
    LET function_idx == At(p.compilers, compiler_idx).function_idx
        upvalue_count == At(p.heap.functions, function_idx).upvalue_count
        ups == At(p.compilers, compiler_idx).upvalues
        found == {k \in 1..upvalue_count : ups[k].index = index /\ ups[k].is_local = is_local}
    IN  IF found # {} THEN Ret(p, (CHOOSE k \in found : \A j \in found : k <= j) - 1)
        ELSE IF upvalue_count = MAX_UPVALUE_COUNT
        THEN Ret(error(p, "Too many closures in function."), 0)
        ELSE Ret([p EXCEPT !.heap.functions[function_idx + 1].upvalue_count = @ + 1,
                           !.compilers[compiler_idx + 1].upvalues =
                               Append(@, [index |-> index, is_local |-> is_local])],
                 upvalue_count)

RECURSIVE resolve_upvalue(_, _, _)
\* resolve_upvalue, after the enclosing function was asked for an upvalue.
resolve_upvalue_enclosing(r, compiler_idx) ==
    IF r.ret # NoIndex THEN add_upvalue(r, compiler_idx, r.ret, FALSE) ELSE Ret(r, NoIndex)

\* resolve_upvalue, after the enclosing function was asked for a local.
resolve_upvalue_local(q, compiler_idx, enclosing_idx, name) ==
    IF q.ret # NoIndex
    THEN add_upvalue([q EXCEPT !.compilers[enclosing_idx + 1].locals[q.ret + 1].is_captured = TRUE],
                     compiler_idx, q.ret, TRUE)
    ELSE resolve_upvalue_enclosing(resolve_upvalue(q, enclosing_idx, name), compiler_idx)

resolve_upvalue(p, compiler_idx, name) ==
    IF At(p.compilers, compiler_idx).enclosing = NoIndex THEN Ret(p, NoIndex)
    ELSE resolve_upvalue_local(
             resolve_local(p, At(p.compilers, compiler_idx).enclosing, name),
             compiler_idx, At(p.compilers, compiler_idx).enclosing, name)

(***************************************************************************)
(* Expressions, statements and declarations.  The parser is recursive       *)
(* descent; the calls a function has yet to make once a nested expression,  *)
(* statement or declaration returns are kept in todo, the first to make     *)
(* first.  A frame holds the name of the function (or of the place in it)   *)
(* and the values of its locals; the value a call returns is in ret.        *)
(***************************************************************************)
Frame(k, args) == [k |-> k, args |-> args]
Expression == Frame("expression", <<>>)
ParsePrecedence(precedence) == Frame("parse_precedence", <<precedence>>)
Statement == Frame("statement", <<>>)
Declaration == Frame("declaration", <<>>)
Consume(type, message) == Frame("consume", <<type, message>>)
EmitByte(byte) == Frame("emit_byte", <<byte>>)
EmitBytes(byte1, byte2) == Frame("emit_bytes", <<byte1, byte2>>)
EmitLoop(loop_start) == Frame("emit_loop", <<loop_start>>)
PatchJump(offset) == Frame("patch_jump", <<offset>>)
DefineVariable(global) == Frame("define_variable", <<global>>)

\* The calls in frames come next, then what was to do before.
Then(p, frames) == IF p.status # "ok" THEN p ELSE [p EXCEPT !.todo = frames \o @]

string(p) ==
    IF p.status # "ok" THEN p
    ELSE emit_constant([p EXCEPT !.heap = alloc_string(@, previous(p).literal)],
                       StringHash(hash_string(previous(p).literal)))

number(p) ==
    IF p.status # "ok" THEN p ELSE emit_constant(p, Number(previous(p).num))

literal(p) ==
    IF p.status # "ok" THEN p
    ELSE CASE previous(p).type = "False" -> emit_byte(p, OpFalse)
           [] previous(p).type = "True" -> emit_byte(p, OpTrue)
           [] previous(p).type = "Nil" -> emit_byte(p, OpNil)
           [] OTHER -> p

\* named_variable: get_op, set_op and arg of the variable found by the call before.
Resolved(q, get_op, set_op) ==
    Ret(q, [get_op |-> get_op, set_op |-> set_op, arg |-> q.ret % U8])

\* named_variable: not a local; an upvalue, or else a global.
named_variable_upvalue(q, name) ==
    IF q.ret # NoIndex THEN Resolved(q, OpGetUpvalue, OpSetUpvalue)
    ELSE Resolved(identifier_constant(q, name), OpGetGlobal, OpSetGlobal)

named_variable_local(q, name) ==
    IF q.ret # NoIndex THEN Resolved(q, OpGetLocal, OpSetLocal)
    ELSE named_variable_upvalue(resolve_upvalue(q, q.cur, name), name)

\* named_variable: `a += e` and `a -= e`, after the operator.
named_variable_compound(m, v, op) ==
    Then(emit_bytes(m, v.get_op, v.arg),
         <<Expression, EmitByte(op), EmitBytes(v.set_op, v.arg)>>)

\* named_variable, after the variable is resolved (ret of q).
named_variable_emit(q, can_assign) ==
    LET v == q.ret
        m1 == match_token_type(q, "Equal")
        m2 == match_token_type(q, "PlusEqual")
        m3 == match_token_type(q, "MinusEqual")
    IN  IF q.status # "ok" THEN q
        ELSE IF can_assign /\ m1.ret
        THEN Then(m1, <<Expression, EmitBytes(v.set_op, v.arg)>>)
        ELSE IF can_assign /\ m2.ret THEN named_variable_compound(m2, v, OpAdd)
        ELSE IF can_assign /\ m3.ret THEN named_variable_compound(m3, v, OpSubtract)
        ELSE emit_bytes(q, v.get_op, v.arg)

named_variable(p, token, can_assign) ==
    IF p.status # "ok" THEN p
    ELSE named_variable_emit(
             named_variable_local(resolve_local(p, p.cur, token.lexeme), token.lexeme),
             can_assign)

variable(p, can_assign) ==
    IF p.status # "ok" THEN p ELSE named_variable(p, previous(p), can_assign)

\* The function that compiler_idx compiles is a method or an initializer, or
\* is nested in one.
RECURSIVE InMethod(_, _)
InMethod(p, compiler_idx) ==
    IF compiler_idx < 0 \/ compiler_idx >= Len(p.compilers) THEN FALSE
    ELSE IF At(p.compilers, compiler_idx).function_type \in {"Method", "Initializer"} THEN TRUE
    ELSE InMethod(p, At(p.compilers, compiler_idx).enclosing)

\* this without the test of current_class.
this_anywhere(p) ==
    IF p.status # "ok" THEN p
    ELSE variable([p EXCEPT !.this_outside = @ \/ ~InMethod(p, p.cur)], FALSE)

\* this_outside records a `this` in a function that is not in a method.
this(p) ==
    IF p.status # "ok" THEN p
    ELSE IF p.current_class = 0
    THEN error([p EXCEPT !.this_outside = @ \/ ~InMethod(p, p.cur)],
               "Can't use 'this' outside of class")
    ELSE variable([p EXCEPT !.this_outside = @ \/ ~InMethod(p, p.cur)], FALSE)

grouping(p) == Then(p, <<Expression, Consume("RightParen", "Expect ')' after expression.")>>)

unary(p) ==
    IF p.status # "ok" THEN p
    ELSE Then(p, <<ParsePrecedence(PrecUnary)>>
                 \o CASE previous(p).type = "Minus" -> <<EmitByte(OpNegate)>>
                      [] previous(p).type = "Bang" -> <<EmitByte(OpNot)>>
                      [] OTHER -> <<>>)

\* binary, after the right operand is compiled: an operator type without an
\* arm reaches panic!("Unreachable code").
binary_emit(q, operator_type) ==
    IF q.status # "ok" THEN q
    ELSE CASE operator_type = "Plus" -> emit_byte(q, OpAdd)
           [] operator_type = "Star" -> emit_byte(q, OpMultiply)
           [] operator_type = "Slash" -> emit_byte(q, OpDivide)
           [] operator_type = "Minus" -> emit_byte(q, OpSubtract)
           [] operator_type = "BangEqual" -> emit_bytes(q, OpEqual, OpNot)
           [] operator_type = "EqualEqual" -> emit_byte(q, OpEqual)
           [] operator_type = "Less" -> emit_byte(q, OpLess)
           [] operator_type = "LessEqual" -> emit_bytes(q, OpGreater, OpNot)
           [] operator_type = "Greater" -> emit_byte(q, OpGreater)
           [] operator_type = "GreaterEqual" -> emit_bytes(q, OpLess, OpNot)
           [] OTHER -> ParserPanic(q)

\* unconsumed_equal records that the operator is an `=` that no assignment took.
binary(p) ==
    IF p.status # "ok" THEN p
    ELSE Then([p EXCEPT !.unconsumed_equal = @ \/ previous(p).type = "Equal"],
              <<ParsePrecedence(parse_rules(previous(p).type).precedence + 1),
                Frame("binary_emit", <<previous(p).type>>)>>)

\* argument_list, after the arguments: ret is their number.
argument_list_end(p, arg_count) ==
    Ret(consume(p, "RightParen", "Expect ')' after arguments"), arg_count)

argument_list_comma(m, arg_count) ==
    IF m.status # "ok" THEN m
    ELSE IF m.ret THEN Then(m, <<Expression, Frame("argument_list_next", <<arg_count + 1>>)>>)
    ELSE argument_list_end(m, arg_count + 1)

\* argument_list, after an argument: `,` goes on with the next one.
argument_list_next(q, arg_count) ==
    argument_list_comma(
        match_token_type(IF arg_count = 255
                         THEN error(q, "Can't have more than 255 arguments.") ELSE q,
                         "Comma"),
        arg_count)

argument_list(p) ==
    IF p.status # "ok" THEN p
    ELSE IF ~check(p, "RightParen")
    THEN Then(p, <<Expression, Frame("argument_list_next", <<0>>)>>)
    ELSE argument_list_end(p, 0)

\* call, after argument_list returned the number of arguments.
call_end(a) == emit_bytes_ret(a, OpCall)

call(p) == argument_list(Then(p, <<Frame("call_end", <<>>)>>))

\* dot, after argument_list: OpInvoke, the name and the number of arguments.
dot_invoke(a, name) == emit_byte(emit_bytes(a, OpInvoke, name), a.ret)

\* dot, after the name of the property is a constant (ret of n).
dot_property(n, can_assign) ==
    LET name == n.ret
        m1 == match_token_type(n, "Equal")
        m2 == match_token_type(n, "LeftParen")
    IN  IF n.status # "ok" THEN n
        ELSE IF can_assign /\ m1.ret
        THEN Then(m1, <<Expression, EmitBytes(OpSetProperty, name)>>)
        ELSE IF m2.ret
        THEN argument_list(Then(m2, <<Frame("dot_invoke", <<name>>)>>))
        ELSE emit_bytes(n, OpGetProperty, name)

dot_name(c, can_assign) ==
    IF c.status # "ok" THEN c
    ELSE dot_property(identifier_constant(c, previous(c).lexeme), can_assign)

dot(p, can_assign) ==
    dot_name(consume(p, "Identifier", "Expect field name after '.'."), can_assign)

\* and, or: after the jump over the right operand is emitted (ret of the call).
and_right(j) == Then(emit_byte(j, OpPop), <<ParsePrecedence(PrecAnd), PatchJump(j.ret)>>)

and(p) == and_right(emit_jump(p, OpJumpIfFalse))

or_right(end_jump, else_jump) ==
    Then(emit_byte(patch_jump(end_jump, else_jump), OpPop),
         <<ParsePrecedence(PrecOr), PatchJump(end_jump.ret)>>)

or_else(else_jump) == or_right(emit_jump(else_jump, OpJump), else_jump.ret)

or(p) == or_else(emit_jump(p, OpJumpIfFalse))

\* call_rule_function returned false: parse_precedence returns, its loop is
\* not entered.
parse_precedence_return(p) == IF p.status # "ok" THEN p ELSE [p EXCEPT !.todo = Tail(@)]

call_rule_function(p, rule, can_assign) ==
    IF p.status # "ok" THEN p
    ELSE CASE rule = "None" -> parse_precedence_return(error(p, "Expect expression"))
           [] rule = "Grouping" -> grouping(p)
           [] rule = "Call" -> call(p)
           [] rule = "Unary" -> unary(p)
           [] rule = "Binary" -> binary(p)
           [] rule = "Variable" -> variable(p, can_assign)
           [] rule = "String" -> string(p)
           [] rule = "Number" -> number(p)
           [] rule = "Literal" -> literal(p)
           [] rule = "And" -> and(p)
           [] rule = "Or" -> or(p)
           [] rule = "Dot" -> dot(p, can_assign)
           [] rule = "This" -> this(p)

\* parse_precedence: the loop over the infix rules, and after it an `=` still
\* there is not an assignment.
parse_precedence_infix(a, precedence, can_assign) ==
    IF a.status # "ok" THEN a
    ELSE call_rule_function(a, parse_rules(previous(a).type).infix, can_assign)

parse_precedence_loop(p, precedence, can_assign) ==
    IF p.status # "ok" THEN p
    ELSE IF precedence <= parse_rules(peek(p).type).precedence
    THEN parse_precedence_infix(
             advance(Then(p, <<Frame("parse_precedence_loop", <<precedence, can_assign>>)>>)),
             precedence, can_assign)
    ELSE IF can_assign /\ check(p, "Equal")
    THEN error(advance(p), "Invalid assignment target.")
    ELSE p

parse_precedence_prefix(a, can_assign) ==
    IF a.status # "ok" THEN a
    ELSE call_rule_function(a, parse_rules(previous(a).type).prefix, can_assign)

parse_precedence(p, precedence) ==
    parse_precedence_prefix(
        advance(Then(p, <<Frame("parse_precedence_loop",
                                <<precedence, precedence <= PrecAssignment>>)>>)),
        precedence <= PrecAssignment)

expression(p) == parse_precedence(p, PrecAssignment)

\* block: at Eof neither check is true and declaration() consumes nothing,
\* so the loop does not end.
block_loop(p) ==
    IF p.status # "ok" THEN p
    ELSE IF is_at_end(p) THEN [p EXCEPT !.status = "hang"]
    ELSE IF peek(p).type = "RightBrace" THEN p
    ELSE Then(p, <<Declaration, Frame("block_loop", <<>>)>>)

block(p) ==
    Then(p, <<Frame("block_loop", <<>>), Consume("RightBrace", "Expect '}' after block.")>>)

RECURSIVE function_params(_)
function_params_next(m) == IF m.status = "ok" /\ m.ret THEN function_params(m) ELSE m

function_params_define(v) ==
    function_params_next(match_token_type(define_variable(v, v.ret), "Comma"))

function_params_arity(a) ==
    function_params_define(
        parse_variable(IF current_function(a).arity >= 255
                       THEN error_at_current(a, "Can't have more than 255 parameters")
                       ELSE a,
                       "Expect a parameter name"))

function_params(p) ==
    IF p.status # "ok" THEN p
    ELSE function_params_arity(
             [p EXCEPT !.heap.functions[current_compiler(p).function_idx + 1].arity = @ + 1])

RECURSIVE function_upvalues(_, _, _, _)
function_upvalues(p, compiler_idx, k, upvalue_count) ==
    IF k >= upvalue_count \/ p.status # "ok" THEN p
    ELSE LET up == At(At(p.compilers, compiler_idx).upvalues, k)
         IN  function_upvalues(
                 emit_byte(emit_byte(p, IF up.is_local THEN 1 ELSE 0), up.index % U8),
                 compiler_idx, k + 1, upvalue_count)

\* A function that emits the two bytes of its first upvalue only.
function_capture_first(s, func_idx, compiler_idx) ==
    IF s.status # "ok" THEN s
    ELSE function_upvalues(s, compiler_idx, 0,
                           IF At(s.heap.functions, func_idx).upvalue_count > 0 THEN 1 ELSE 0)

\* function, after OpClosure and its constant: the two bytes of each upvalue.
function_capture(s, func_idx, compiler_idx) ==
    IF s.status # "ok" THEN s
    ELSE function_upvalues(s, compiler_idx, 0, At(s.heap.functions, func_idx).upvalue_count)

\* function, after the block of the body.
function_end(p, func_idx, compiler_idx) ==
    function_capture(
        emit_bytes_ret(make_constant(end_compiler(p), FunctionIndex(func_idx)), OpClosure),
        func_idx, compiler_idx)

\* function, after the `(`: the parameters and the body.
function_body(s, func_idx, compiler_idx) ==
    block(Then(consume(consume(IF s.status = "ok" /\ ~check(s, "RightParen")
                               THEN function_params(s) ELSE s,
                               "RightParen", "Expect ')' after parameters"),
                       "LeftBrace", "Expect '{' before function body"),
               <<Frame("function_end", <<func_idx, compiler_idx>>)>>))

function(p, function_type) ==
    IF p.status # "ok" THEN p
    ELSE function_body(
             consume(begin_scope(
                         [p EXCEPT !.heap = alloc_function(
                                       @, Function(IF function_type = "Main" THEN "Main"
                                                   ELSE previous(p).lexeme, 0)),
                                   !.compilers = Append(@, CompilerNew(p.cur, Len(p.heap.functions),
                                                                       function_type)),
                                   !.cur = Len(p.compilers)]),
                     "LeftParen", "Expect '(' after function name"),
             Len(p.heap.functions), Len(p.compilers))

\* fun_declaration, after parse_variable returned the constant of the name.
fun_declaration_name(g) ==
    function(Then(mark_initialized(g), <<DefineVariable(g.ret)>>), "Function")

fun_declaration(p) == fun_declaration_name(parse_variable(p, "Expect a function name"))

\* var_declaration, after the match of `=`.
var_declaration_init(m, global) ==
    IF m.status # "ok" THEN m
    ELSE IF m.ret
    THEN Then(m, <<Expression,
                   Consume("Semicolon", "Expect ';' after variable declaration."),
                   DefineVariable(global)>>)
    ELSE define_variable(consume(emit_byte(m, OpNil), "Semicolon",
                                 "Expect ';' after variable declaration."),
                         global)

var_declaration_name(g) == var_declaration_init(match_token_type(g, "Equal"), g.ret)

var_declaration(p) == var_declaration_name(parse_variable(p, "Expect a variable name."))

\* method, after the name is a constant (ret of k).
method_function(k) ==
    IF k.status # "ok" THEN k
    ELSE function(Then(k, <<EmitBytes(OpMethod, k.ret)>>),
                  IF previous(k).lexeme = "init" THEN "Initializer" ELSE "Method")

method_name(c) ==
    IF c.status # "ok" THEN c
    ELSE method_function(identifier_constant(c, previous(c).lexeme))

method(p) == method_name(consume(p, "Identifier", "Expect a method name."))

class_declaration_loop(p) ==
    IF p.status # "ok" \/ check(p, "RightBrace") THEN p
    ELSE method(Then(p, <<Frame("class_declaration_loop", <<>>)>>))

\* class_declaration, after the class is defined as a variable.
class_declaration_body(d, class_name) ==
    IF d.status # "ok" THEN d
    ELSE Then([d EXCEPT !.current_class = @ + 1],
              <<Frame("named_variable", <<class_name, FALSE>>),
                Consume("LeftBrace", "Expect '{' before class body"),
                Frame("class_declaration_loop", <<>>),
                Consume("RightBrace", "Expect '}' after class body."),
                EmitByte(OpPop),
                Frame("class_declaration_end", <<>>)>>)

class_declaration_constant(n, class_name) ==
    class_declaration_body(
        define_variable(emit_bytes(declare_variable(n), OpClass, n.ret), n.ret),
        class_name)

class_declaration_name(c) ==
    IF c.status # "ok" THEN c
    ELSE class_declaration_constant(identifier_constant(c, previous(c).lexeme), previous(c))

class_declaration(p) ==
    class_declaration_name(consume(p, "Identifier", "Expect a class name."))

class_declaration_end(p) ==
    IF p.status # "ok" THEN p ELSE [p EXCEPT !.current_class = @ - 1]

expression_statement(p) ==
    Then(p, <<Expression, Consume("Semicolon", "Expect ';' after expression."),
              EmitByte(OpPop)>>)

print_statement(p) ==
    Then(p, <<Expression, Consume("Semicolon", "Expect ';' after value."),
              EmitByte(OpPrint)>>)

\* return_statement, after the match of `;`.  return_init_value records a
\* `return <expr>;` in a function of type Initializer.
return_statement_value(m) ==
    IF m.ret THEN emit_return(m)
    ELSE Then(IF current_compiler(m).function_type = "Initializer"
              THEN error([m EXCEPT !.return_init_value = TRUE],
                         "Can't return value from an initializer.")
              ELSE m,
              <<Expression, Consume("Semicolon", "Expect ';' after return value."),
                EmitByte(OpReturn)>>)

\* return_statement without the test for the main function.
return_statement_anywhere(p) ==
    IF p.status # "ok" THEN p
    ELSE return_statement_value(
             match_token_type([p EXCEPT !.return_main = @ \/ current_compiler(p).function_type = "Main"],
                              "Semicolon"))

\* return_main records a return statement in the function of type Main.
\* returns: of each return statement, the type of the function it is in and
\* whether it was answered with "Can't return from main."
return_statement(p) ==
    IF p.status # "ok" THEN p
    ELSE IF current_function(p).name = "main"
    THEN error([p EXCEPT !.return_main = @ \/ current_compiler(p).function_type = "Main",
                         !.returns = @ \cup {[function_type |-> current_compiler(p).function_type,
                                              from_main |-> TRUE]}],
               "Can't return from main.")
    ELSE return_statement_value(
             match_token_type(
                 [p EXCEPT !.returns = @ \cup {[function_type |-> current_compiler(p).function_type,
                                                from_main |-> FALSE]}],
                 "Semicolon"))

code_len(p) == IF p.status # "ok" THEN 0 ELSE Len(current_function(p).chunk.code)

\* while_statement, after the jump out of the loop is emitted (ret of exit_jump).
while_exit(exit_jump, loop_start) ==
    Then(emit_byte(exit_jump, OpPop),
         <<Statement, EmitLoop(loop_start), PatchJump(exit_jump.ret), EmitByte(OpPop)>>)

\* while_statement, after the condition.
while_body(p, loop_start) == while_exit(emit_jump(p, OpJumpIfFalse), loop_start)

while_statement(p) ==
    Then(p, <<Consume("LeftParen", "Expect '(' after while."), Expression,
              Consume("RightParen", "Expect ')' after condition."),
              Frame("while_body", <<code_len(p)>>)>>)

\* if_statement, after the then branch: the match of `else`.
if_else_branch(m, else_jump) ==
    IF m.status = "ok" /\ m.ret THEN Then(m, <<Statement, PatchJump(else_jump)>>)
    ELSE patch_jump(m, else_jump)

if_else_jump(else_jump, then_jump) ==
    if_else_branch(
        match_token_type(emit_byte(patch_jump(else_jump, then_jump), OpPop), "Else"),
        else_jump.ret)

if_else(p, then_jump) == if_else_jump(emit_jump(p, OpJump), then_jump)

\* if_statement, after the condition: the then branch.
if_then_jump(then_jump) ==
    Then(emit_byte(then_jump, OpPop), <<Statement, Frame("if_else", <<then_jump.ret>>)>>)

if_then(p) == if_then_jump(emit_jump(p, OpJumpIfFalse))

if_statement(p) ==
    Then(p, <<Consume("LeftParen", "Expect '(' after if."), Expression,
              Consume("RightParen", "Expect ')' after condition."),
              Frame("if_then", <<>>)>>)

\* for_statement: the body, the loop back, and the exit of a loop with a condition
\* (exit_jump is -1 without one).
for_body(p, loop_start, exit_jump) ==
    Then(p, <<Statement, EmitLoop(loop_start)>>
            \o (IF exit_jump # -1 THEN <<PatchJump(exit_jump), EmitByte(OpPop)>> ELSE <<>>)
            \o <<Frame("end_scope", <<>>)>>)

\* for_statement: the increment clause runs after the body, which jumps over it.
for_increment_jump(body_jump, loop_start, exit_jump) ==
    Then(body_jump,
         <<Expression, EmitByte(OpPop),
           Consume("RightParen", "Expect ')' after for clauses."),
           EmitLoop(loop_start), PatchJump(body_jump.ret),
           Frame("for_body", <<code_len(body_jump), exit_jump>>)>>)

for_increment(c, loop_start, exit_jump) ==
    IF c.status # "ok" THEN c
    ELSE IF ~c.ret THEN for_increment_jump(emit_jump(c, OpJump), loop_start, exit_jump)
    ELSE for_body(c, loop_start, exit_jump)

\* for_statement, after the condition: the jump out of the loop.
for_exit_jump(exit_jump, loop_start) ==
    for_increment(match_token_type(emit_byte(exit_jump, OpPop), "RightParen"),
                  loop_start, exit_jump.ret)

for_exit(p, loop_start) == for_exit_jump(emit_jump(p, OpJumpIfFalse), loop_start)

for_condition_clause(c, loop_start) ==
    IF c.status # "ok" THEN c
    ELSE IF ~c.ret
    THEN Then(c, <<Expression, Consume("Semicolon", "Expect ';' after loop condition"),
                   Frame("for_exit", <<loop_start>>)>>)
    ELSE for_increment(match_token_type(c, "RightParen"), loop_start, -1)

\* for_statement, after the initializer clause.
for_condition(p) == for_condition_clause(match_token_type(p, "Semicolon"), code_len(p))

for_initializer(s) ==
    LET i1 == match_token_type(s, "Semicolon")
        i2 == match_token_type(s, "Var")
    IN  IF s.status # "ok" THEN s
        ELSE IF i1.ret THEN Then(i1, <<Frame("for_condition", <<>>)>>)
        ELSE IF i2.ret THEN var_declaration(Then(i2, <<Frame("for_condition", <<>>)>>))
        ELSE expression_statement(Then(s, <<Frame("for_condition", <<>>)>>))

for_statement(p) ==
    for_initializer(consume(begin_scope(p), "LeftParen", "Expect '(' after 'for'."))

statement(p) ==
    LET m1 == match_token_type(p, "Print")
        m2 == match_token_type(p, "For")
        m3 == match_token_type(p, "If")
        m4 == match_token_type(p, "Return")
        m5 == match_token_type(p, "While")
        m6 == match_token_type(p, "LeftBrace")
    IN  IF p.status # "ok" THEN p
        ELSE IF m1.ret THEN print_statement(m1)
        ELSE IF m2.ret THEN for_statement(m2)
        ELSE IF m3.ret THEN if_statement(m3)
        ELSE IF m4.ret THEN return_statement(m4)
        ELSE IF m5.ret THEN while_statement(m5)
        ELSE IF m6.ret THEN block(Then(begin_scope(m6), <<Frame("end_scope", <<>>)>>))
        ELSE expression_statement(p)

\* declaration, after the declaration or statement: `if self.panic_mode`.
declaration_end(p) == IF p.status = "ok" /\ p.panic_mode THEN synchronize(p) ELSE p

declaration(p) ==
    LET m1 == match_token_type(p, "Fun")
        m2 == match_token_type(p, "Var")
        m3 == match_token_type(p, "Class")
    IN  IF p.status # "ok" THEN p
        ELSE IF m1.ret THEN fun_declaration(Then(m1, <<Frame("declaration_end", <<>>)>>))
        ELSE IF m2.ret THEN var_declaration(Then(m2, <<Frame("declaration_end", <<>>)>>))
        ELSE IF m3.ret THEN class_declaration(Then(m3, <<Frame("declaration_end", <<>>)>>))
        ELSE statement(Then(p, <<Frame("declaration_end", <<>>)>>))

\* compile: `while !self.is_at_end() { self.declaration(); }`.
compile_loop(p) ==
    IF p.status # "ok" \/ is_at_end(p) THEN p
    ELSE Then(p, <<Declaration, Frame("compile_loop", <<>>)>>)

\* Parser::compile up to its loop; end_compiler returns the index of "main".
compile(p) ==
    Then([p EXCEPT !.heap = alloc_function(@, Function("main", 0)),
                   !.compilers = Append(@, CompilerNew(NoIndex, Len(p.heap.functions), "Main")),
                   !.cur = Len(p.compilers)],
         <<Frame("compile_loop", <<>>), Frame("end_compiler", <<>>)>>)

\* The next call of a declaration-level function.
DeclarationFrames ==
    {"compile_loop", "end_compiler", "declaration", "declaration_end", "block_loop",
     "function_end", "class_declaration_loop", "class_declaration_end"}

declaration_frame(p, f) ==
    CASE f.k = "compile_loop" -> compile_loop(p)
      [] f.k = "end_compiler" -> end_compiler(p)
      [] f.k = "declaration" -> declaration(p)
      [] f.k = "declaration_end" -> declaration_end(p)
      [] f.k = "block_loop" -> block_loop(p)
      [] f.k = "function_end" -> function_end(p, f.args[1], f.args[2])
      [] f.k = "class_declaration_loop" -> class_declaration_loop(p)
      [] f.k = "class_declaration_end" -> class_declaration_end(p)

\* The next call of a statement-level function.
StatementFrames ==
    {"statement", "while_body", "if_then", "if_else", "for_condition", "for_exit", "for_body"}

statement_frame(p, f) ==
    CASE f.k = "statement" -> statement(p)
      [] f.k = "while_body" -> while_body(p, f.args[1])
      [] f.k = "if_then" -> if_then(p)
      [] f.k = "if_else" -> if_else(p, f.args[1])
      [] f.k = "for_condition" -> for_condition(p)
      [] f.k = "for_exit" -> for_exit(p, f.args[1])
      [] f.k = "for_body" -> for_body(p, f.args[1], f.args[2])

\* The next call of an expression-level function.
ExpressionFrames ==
    {"expression", "parse_precedence", "parse_precedence_loop", "named_variable",
     "binary_emit", "argument_list_next", "call_end", "dot_invoke"}

expression_frame(p, f) ==
    CASE f.k = "expression" -> expression(p)
      [] f.k = "parse_precedence" -> parse_precedence(p, f.args[1])
      [] f.k = "parse_precedence_loop" -> parse_precedence_loop(p, f.args[1], f.args[2])
      [] f.k = "named_variable" -> named_variable(p, f.args[1], f.args[2])
      [] f.k = "binary_emit" -> binary_emit(p, f.args[1])
      [] f.k = "argument_list_next" -> argument_list_next(p, f.args[1])
      [] f.k = "call_end" -> call_end(p)
      [] f.k = "dot_invoke" -> dot_invoke(p, f.args[1])

\* The next call of a function that calls no expression, statement or declaration.
EmitFrames ==
    {"consume", "emit_byte", "emit_bytes", "emit_loop", "patch_jump", "end_scope",
     "define_variable"}

emit_frame(p, f) ==
    CASE f.k = "consume" -> consume(p, f.args[1], f.args[2])
      [] f.k = "emit_byte" -> emit_byte(p, f.args[1])
      [] f.k = "emit_bytes" -> emit_bytes(p, f.args[1], f.args[2])
      [] f.k = "emit_loop" -> emit_loop(p, f.args[1])
      [] f.k = "patch_jump" -> patch_jump(p, f.args[1])
      [] f.k = "end_scope" -> end_scope(p)
      [] f.k = "define_variable" -> define_variable(p, f.args[1])

(***************************************************************************)
(* vm.rs: VM.  The functions of the VM are operators on the record of the   *)
(* VM's fields; st is "run" while run() loops and the way it ended after,   *)
(* ret is the value a function returns.  A usize that wrapped below zero    *)
(* (release build) is kept as the negative number it is congruent to: every *)
(* use of it as an index is out of bounds.                                   *)
(***************************************************************************)
STACK_SIZE == 256
None == 0                           \* Option::None of an upvalue link
NoLocation == -1                    \* Option::None of ObjUpvalue.location
EmptyMap == [h \in {} |-> Nil]

MapInsert(map, key, value) ==
    [h \in DOMAIN map \cup {key} |-> IF h = key THEN value ELSE map[h]]

VMState ==
    [build |-> build, ip |-> ip, stack |-> stack, stack_top |-> stack_top,
     callstack |-> callstack, globals |-> globals, heap |-> heap,
     curr_func_idx |-> curr_func_idx, open_upvalues |-> open_upvalues,
     upvalues |-> upvalues, init_string_hash |-> init_string_hash,
     hist |-> hist, st |-> "run", ret |-> 0]

VMPanic(m) == [m EXCEPT !.st = "panic"]
VMRet(m, r) == [m EXCEPT !.ret = r]
InRange(s, i) == i >= 0 /\ i < Len(s)

\* a - b on usize: overflow aborts the debug build and wraps in the release build.
usize_sub(m, a, b) ==
    IF m.st # "run" THEN m
    ELSE IF a - b < 0 /\ m.build = "debug" THEN VMPanic(m) ELSE VMRet(m, a - b)

push(m, value) ==
    IF m.st # "run" THEN m
    ELSE IF ~InRange(m.stack, m.stack_top) THEN VMPanic([m EXCEPT !.hist.push_at = m.stack_top])
    ELSE [m EXCEPT !.stack = Put(@, m.stack_top, value), !.stack_top = @ + 1]

fpop_top(d) == IF d.st # "run" THEN d ELSE [d EXCEPT !.stack_top = d.ret]

fpop(m) == fpop_top(usize_sub(m, m.stack_top, 1))

pop_value(d) ==
    IF d.st # "run" THEN d
    ELSE IF ~InRange(d.stack, d.stack_top) THEN VMPanic(d)
    ELSE VMRet(d, At(d.stack, d.stack_top))

pop(m) == pop_value(fpop(m))

vm_peek_value(d) ==
    IF d.st # "run" THEN d
    ELSE IF ~InRange(d.stack, d.ret) THEN VMPanic(d)
    ELSE VMRet(d, At(d.stack, d.ret))

\* peek: ret is the value pos slots below the top.
vm_peek(m, pos) == vm_peek_value(usize_sub(m, m.stack_top, 1 + pos))

read_byte(m) ==
    IF m.st # "run" THEN m
    ELSE IF ~InRange(m.heap.functions, m.curr_func_idx) THEN VMPanic(m)
    ELSE LET code == At(m.heap.functions, m.curr_func_idx).chunk.code
         IN  IF ~InRange(code, m.ip) THEN VMPanic(m)
             ELSE [m EXCEPT !.ip = @ + 1, !.ret = At(code, m.ip)]

read_short_low(b2, high) ==
    IF b2.st # "run" THEN b2 ELSE VMRet(b2, high * 256 + b2.ret)

read_short_high(b1) == read_short_low(read_byte(b1), b1.ret)

read_short(m) == read_short_high(read_byte(m))

read_constant_value(b) ==
    IF b.st # "run" THEN b
    ELSE LET constants == At(b.heap.functions, b.curr_func_idx).chunk.constants
         IN  IF ~InRange(constants, b.ret) THEN VMPanic(b)
             ELSE VMRet(b, At(constants, b.ret))

read_constant(m) == read_constant_value(read_byte(m))

as_string_hash(c) ==
    IF c.st # "run" THEN c
    ELSE IF c.ret.t # "StringHash" THEN VMPanic(c) ELSE VMRet(c, c.ret.v)

\* read_string, then as_string_hash: ret is the hash.
read_string(m) == as_string_hash(read_constant(m))

reset_stack(m) ==
    [m EXCEPT !.stack = <<>>, !.stack_top = 0, !.ip = 0, !.open_upvalues = None,
              !.curr_func_idx = 0, !.callstack = <<>>, !.heap = HeapClear(@)]

runtime_error(m, message) ==
    IF m.st # "run" THEN m
    ELSE [reset_stack(m) EXCEPT !.hist.error = message]

\* return RunResult::RuntimeError
RuntimeError(m) == IF m.st # "run" THEN m ELSE [m EXCEPT !.st = "RuntimeError"]

\* if !result { return RunResult::RuntimeError }
check_result(r) == IF r.st = "run" /\ r.ret = FALSE THEN RuntimeError(r) ELSE r

\* Heap::get_string(hash).unwrap(), for a message or a print.
get_string(m, hash) ==
    IF m.st # "run" THEN m
    ELSE IF hash \notin m.heap.strings THEN VMPanic(m)
    ELSE VMRet(m, get_string_text(hash))

CallFrame(closure_idx, slot_offset) ==
    [closure_idx |-> closure_idx, ip |-> 0, slot_offset |-> slot_offset]

Closure(func_idx, upvalue_count) ==
    [func_idx |-> func_idx, upvalues |-> [k \in 1..upvalue_count |-> None]]

new_closure(m, func_idx, upvalue_count) ==
    IF m.st # "run" THEN m
    ELSE [m EXCEPT !.heap = alloc_closure(@, Closure(func_idx, upvalue_count)),
                   !.ret = Len(m.heap.closures)]
\* closure.rs ObjUpvalue, with the link to the next open upvalue that vm.rs uses.
ObjUpvalue(location, next) ==
    [location |-> location, is_closed |-> FALSE, closed |-> Nil, next |-> next]

\* The upvalue cell in slot `slot` of a closure; ret is the cell, 0 for a null cell.
closure_upvalue(m, slot, closure_idx) ==
    IF m.st # "run" THEN m
    ELSE IF ~InRange(m.heap.closures, closure_idx) THEN VMPanic(m)
    ELSE IF ~InRange(At(m.heap.closures, closure_idx).upvalues, slot) THEN VMPanic(m)
    ELSE VMRet(m, At(At(m.heap.closures, closure_idx).upvalues, slot))

set_upvalue_location_store(d, cell) ==
    IF d.st # "run" \/ cell = None THEN d
    ELSE [d EXCEPT !.upvalues[cell].location = d.ret]

set_upvalue_location_cell(c) ==
    set_upvalue_location_store(usize_sub(c, c.stack_top, 1), c.ret)

set_upvalue_location(m, slot, closure_idx) ==
    set_upvalue_location_cell(closure_upvalue(m, slot, closure_idx))

\* ObjUpvalue::resolve_value of the cell in c.ret.
resolve_value(c) ==
    IF c.st # "run" THEN c
    ELSE IF c.ret = None THEN VMPanic(c)
    ELSE LET cell == c.upvalues[c.ret]
         IN  IF cell.is_closed THEN VMRet(c, cell.closed)
             ELSE IF cell.location # NoLocation
             THEN IF InRange(c.stack, cell.location)
                  THEN VMRet(c, At(c.stack, cell.location))
                  ELSE VMPanic(c)
             ELSE VMPanic(c)

resolve_upvalue_location(m, slot, closure_idx) ==
    resolve_value(closure_upvalue(m, slot, closure_idx))

upvalue_location_match(m, curr_upvalue, location) ==
    curr_upvalue # None /\ m.upvalues[curr_upvalue].location = location

\* a >= b on usize, a wrapped value being above every value that did not wrap.
usize_geq(a, b) == IF (a < 0) = (b < 0) THEN a >= b ELSE a < 0

\* Option ordering: None is less than every Some.
upvalue_location_is_greater_than(m, upvalue, location) ==
    upvalue # None /\ m.upvalues[upvalue].location # NoLocation
                   /\ m.upvalues[upvalue].location # location
                   /\ usize_geq(m.upvalues[upvalue].location, location)

has_next_upvalue(m, upvalue) == upvalue # None /\ m.upvalues[upvalue].next # None
get_next_upvalue(m, upvalue) == m.upvalues[upvalue].next

\* Opcode::Closure, is_local == 1: the walk of the open list; ret is <<prev, curr>>.
RECURSIVE capture_walk(_, _, _, _)
capture_walk(m, prev_upvalue, curr_upvalue, location) ==
    IF upvalue_location_is_greater_than(m, curr_upvalue, location)
    THEN capture_walk(m, curr_upvalue,
                      IF has_next_upvalue(m, curr_upvalue)
                      THEN get_next_upvalue(m, curr_upvalue) ELSE None,
                      location)
    ELSE <<prev_upvalue, curr_upvalue>>

capture_local_link(n, prev_upvalue, created) ==
    IF prev_upvalue = None
    THEN [n EXCEPT !.open_upvalues = created]
    ELSE [n EXCEPT !.upvalues[prev_upvalue].next = created]

capture_local_create(m, closure_idx, i, location, prev_upvalue, curr_upvalue, created) ==
    capture_local_link(
        [m EXCEPT !.upvalues = Append(@, ObjUpvalue(location, curr_upvalue)),
                  !.heap.closures[closure_idx + 1].upvalues[i + 1] = created,
                  !.hist.home = Append(@, location),
                  !.hist.spec_open = @ \cup {created}],
        prev_upvalue, created)

capture_local_found(m, closure_idx, i, location, walk) ==
    IF upvalue_location_match(m, walk[2], location)
    THEN [m EXCEPT !.heap.closures[closure_idx + 1].upvalues[i + 1] = walk[2]]
    ELSE capture_local_create(m, closure_idx, i, location, walk[1], walk[2],
                              Len(m.upvalues) + 1)

capture_local(m, closure_idx, i, location) ==
    capture_local_found(m, closure_idx, i, location,
                        capture_walk(m, None, m.open_upvalues, location))

\* Opcode::Closure, is_local # 1: the cell of the enclosing closure is shared.
capture_enclosing(shared, closure_idx, i) ==
    IF shared.st # "run" THEN shared
    ELSE [shared EXCEPT !.heap.closures[closure_idx + 1].upvalues[i + 1] = shared.ret]

closure_upvalues_capture(index, closure_idx, i, is_local) ==
    IF index.st # "run" THEN index
    ELSE LET curr_frame == index.callstack[Len(index.callstack)]
         IN  IF is_local = 1
             THEN capture_local(index, closure_idx, i, curr_frame.slot_offset + index.ret)
             ELSE capture_enclosing(closure_upvalue(index, index.ret, curr_frame.closure_idx),
                                    closure_idx, i)

closure_upvalues_index(is_local, closure_idx, i) ==
    closure_upvalues_capture(read_byte(is_local), closure_idx, i, is_local.ret)

\* Opcode::Closure: the loop over the (is_local, index) pairs.
RECURSIVE closure_upvalues(_, _, _, _)
closure_upvalues(m, closure_idx, i, upvalues_count) ==
    IF i >= upvalues_count \/ m.st # "run" THEN m
    ELSE closure_upvalues(closure_upvalues_index(read_byte(m), closure_idx, i),
                          closure_idx, i + 1, upvalues_count)

open_upvalues_location_greater_or_equal_to(m, frame_slot) ==
    m.open_upvalues # None /\ usize_geq(m.upvalues[m.open_upvalues].location, frame_slot)

close_upvalue(m, value) ==
    [m EXCEPT !.upvalues[m.open_upvalues].closed = value,
              !.upvalues[m.open_upvalues].is_closed = TRUE,
              !.upvalues[m.open_upvalues].location = NoLocation]

close_upvalues_next(c) ==
    [c EXCEPT !.open_upvalues = IF has_next_upvalue(c, c.open_upvalues)
                                THEN get_next_upvalue(c, c.open_upvalues) ELSE None]

RECURSIVE close_upvalues(_, _)
close_upvalues(m, frame_slot) ==
    IF m.st # "run" THEN m
    ELSE IF m.open_upvalues # None /\ m.upvalues[m.open_upvalues].location = NoLocation
    THEN VMPanic(m)
    ELSE IF ~open_upvalues_location_greater_or_equal_to(m, frame_slot) THEN m
    ELSE LET location == m.upvalues[m.open_upvalues].location
         IN  IF ~InRange(m.stack, location) THEN VMPanic(m)
             ELSE close_upvalues(close_upvalues_next(close_upvalue(m, At(m.stack, location))),
                                 frame_slot)

vm_call_push(d, closure_idx) ==
    IF d.st # "run" THEN d
    ELSE [d EXCEPT !.callstack = Append(@, CallFrame(closure_idx, d.ret)), !.ret = TRUE]

vm_call_frame(e, closure_idx, arg_count) ==
    vm_call_push(usize_sub(e, e.stack_top, 1 + arg_count), closure_idx)

\* VM::call: after an arity mismatch the function goes on to push the frame.
vm_call(m, closure_idx, arg_count) ==
    IF m.st # "run" THEN m
    ELSE IF ~InRange(m.heap.closures, closure_idx) THEN VMPanic(m)
    ELSE IF ~InRange(m.heap.functions, At(m.heap.closures, closure_idx).func_idx) THEN VMPanic(m)
    ELSE vm_call_frame(
             IF arg_count # At(m.heap.functions, At(m.heap.closures, closure_idx).func_idx).arity
             THEN runtime_error([m EXCEPT !.hist.arity_mismatch = TRUE],
                                "Expected arity arguments")
             ELSE m,
             closure_idx, arg_count)
\* f64::to_string of the numbers that are converted, bool::to_string, "nil".
Digits == <<"0", "1", "2", "3", "4", "5", "6", "7", "8", "9">>
number_to_string(n) == Digits[n + 1]

\* nativefn.rs: a native function applied to its arguments; ret is the
\* NativeValue it returns, st is "panic" when it aborts.
apply_native(m, name, arguments) ==
    IF name = "str"
    THEN IF Len(arguments) = 0 THEN VMPanic(m)
         ELSE LET a == arguments[1]
              IN  VMRet(m, [t |-> "String",
                            s |-> CASE a.t = "String" -> a.s
                                    [] a.t = "Number" -> number_to_string(a.v)
                                    [] a.t = "Bool" -> IF a.v = 1 THEN "true" ELSE "false"
                                    [] OTHER -> "nil"])
    ELSE IF name = "clock" THEN VMRet(m, [t |-> "Number", v |-> 0])
    ELSE IF Len(arguments) < 2 THEN VMPanic(m)
    ELSE IF arguments[1].t # "String" \/ arguments[2].t # "String" THEN VMPanic(m)
    ELSE VMRet([m EXCEPT !.hist.file = arguments[2].s], [t |-> "Bool", v |-> 1])

\* convert_args_to_native: the arguments are popped; a string goes to the
\* front of the vector, any other value to its end.
RECURSIVE convert_args_to_native(_, _, _)
convert_args_to_native_value(v, arg_count, native_values) ==
    IF v.st # "run" THEN v
    ELSE IF v.ret.t \in {"Number", "Bool", "Nil"}
    THEN convert_args_to_native(v, arg_count - 1,
             Append(native_values, [t |-> v.ret.t, v |-> v.ret.v]))
    ELSE IF v.ret.t = "StringHash"
    THEN IF v.ret.v \notin v.heap.strings THEN VMPanic(v)
         ELSE convert_args_to_native(v, arg_count - 1,
                  <<[t |-> "String", s |-> get_string_text(v.ret.v)]>> \o native_values)
    ELSE VMPanic(v)

convert_args_to_native(m, arg_count, native_values) ==
    IF m.st # "run" THEN m
    ELSE IF arg_count = 0 THEN VMRet(m, native_values)
    ELSE convert_args_to_native_value(pop(m), arg_count, native_values)

native_to_value(m, native_val) ==
    IF native_val.t = "String"
    THEN VMRet([m EXCEPT !.heap = alloc_string(@, native_val.s)],
               StringHash(hash_string(native_val.s)))
    ELSE VMRet(m, [t |-> native_val.t, v |-> native_val.v])

call_native_push(v) == VMRet(push(v, v.ret), TRUE)

call_native_result(r) ==
    IF r.st # "run" THEN r ELSE call_native_push(native_to_value(r, r.ret))

call_native_apply(f, native_fn_idx, native_values) ==
    IF f.st # "run" THEN f
    ELSE IF ~InRange(f.heap.native_fns, native_fn_idx) THEN VMPanic(f)
    ELSE call_native_result(apply_native(f, At(f.heap.native_fns, native_fn_idx), native_values))

call_native_values(a, native_fn_idx) == call_native_apply(fpop(a), native_fn_idx, a.ret)

\* hist.native: of the last call of a native function, the arguments on the
\* stack in the order they were written, the vector that the native function
\* received, and stack_top before the call.
call_native_received(m, a, arg_count) ==
    IF a.st # "run" THEN a
    ELSE [a EXCEPT !.hist.native =
             [calls |-> @.calls + 1,
              written |-> [k \in 1..arg_count |-> At(m.stack, m.stack_top - arg_count + k - 1)],
              received |-> a.ret,
              top |-> m.stack_top]]

call_native(m, arg_count, native_fn_idx) ==
    call_native_values(
        call_native_received(m, convert_args_to_native(m, arg_count, <<>>), arg_count),
        native_fn_idx)

\* Object::BoundMethodIndex: the receiver goes to slot zero of the call.
\* call_value without the store of the receiver in the slot of the callee.
call_value_receiver_kept(d, bound, arg_count) ==
    IF d.st # "run" THEN d
    ELSE IF ~InRange(d.stack, d.ret) THEN VMPanic(d)
    ELSE vm_call(d, bound.closure_idx, arg_count)

\* call_value, BoundMethod: d.ret is the slot of the callee.
call_value_receiver(d, bound, arg_count) ==
    IF d.st # "run" THEN d
    ELSE IF ~InRange(d.stack, d.ret) THEN VMPanic(d)
    ELSE vm_call([d EXCEPT !.stack = Put(@, d.ret, bound.receiver)], bound.closure_idx, arg_count)

\* hist.construct: per depth of the call stack, the instance whose initializer
\* runs in the frame at that depth.
call_value_init_frame(called, instance_idx) ==
    IF called.st # "run" \/ called.ret # TRUE THEN called
    ELSE [called EXCEPT !.hist.construct = MapInsert(@, Len(called.callstack), instance_idx)]

call_value_init(b, methods, arg_count) ==
    IF b.init_string_hash \in DOMAIN methods
    THEN IF methods[b.init_string_hash].t # "ClosureIndex" THEN VMPanic(b)
         ELSE call_value_init_frame(vm_call(b, methods[b.init_string_hash].v, arg_count),
                                    Len(b.heap.instances) - 1)
    ELSE IF arg_count # 0
    THEN VMRet(runtime_error(b, "Expect 0 arguments"), FALSE)
    ELSE VMRet(b, TRUE)

\* A call of a class that leaves the class in the slot of the callee.
call_value_instance_class(a, class_idx, arg_count, instance_idx, stack_idx) ==
    IF ~InRange(a.stack, stack_idx) \/ ~InRange(a.heap.classes, class_idx) THEN VMPanic(a)
    ELSE call_value_init(a, At(a.heap.classes, class_idx).methods, arg_count)

\* Object::ClassIndex: the new instance replaces the class on the stack.
call_value_instance(a, class_idx, arg_count, instance_idx, stack_idx) ==
    IF ~InRange(a.stack, stack_idx) \/ ~InRange(a.heap.classes, class_idx) THEN VMPanic(a)
    ELSE call_value_init([a EXCEPT !.stack = Put(@, stack_idx, InstanceIndex(instance_idx))],
                         At(a.heap.classes, class_idx).methods, arg_count)

\* call_value: ret is its boolean result.
call_value(m, callee, arg_count) ==
    IF m.st # "run" THEN m
    ELSE IF callee.t = "BoundMethodIndex"
    THEN IF ~InRange(m.heap.bound_methods, callee.v) THEN VMPanic(m)
         ELSE call_value_receiver(usize_sub(m, m.stack_top, arg_count + 1),
                                  At(m.heap.bound_methods, callee.v), arg_count)
    ELSE IF callee.t = "ClosureIndex" THEN vm_call(m, callee.v, arg_count)
    ELSE IF callee.t = "ClassIndex"
    THEN call_value_instance(
             [m EXCEPT !.heap = alloc_instance(@, [class_idx |-> callee.v, fields |-> EmptyMap])],
             callee.v, arg_count, Len(m.heap.instances), m.stack_top - arg_count - 1)
    ELSE IF callee.t = "NativeFnIndex" THEN call_native(m, arg_count, callee.v)
    ELSE VMRet(runtime_error(m, "Can only call function and classes."), FALSE)

bin_ops_apply(a, b, apply) ==
    IF a.st # "run" THEN a
    ELSE IF a.ret.t = "Number" /\ b.t = "Number"
    THEN VMRet(push(a, Number(CASE apply = "*" -> a.ret.v * b.v
                                [] apply = "-" -> a.ret.v - b.v
                                [] OTHER -> IF b.v = 0 THEN 0 ELSE a.ret.v \div b.v)),
               TRUE)
    ELSE VMRet(runtime_error(a, "Operands must be numbers"), FALSE)

bin_ops_left(b, apply) == bin_ops_apply(pop(b), b.ret, apply)

\* bin_ops: ret is its boolean result; apply is "*", "/" or "-".  The
\* programs divide exactly, so that the f64 quotient is the integer one.
bin_ops(m, apply) == bin_ops_left(pop(m), apply)

bin_cmp_apply(a, b, apply) ==
    IF a.st # "run" THEN a
    ELSE IF a.ret.t = "Number" /\ b.t = "Number"
    THEN VMRet(push(a, Bool(IF apply = "<" THEN a.ret.v < b.v ELSE a.ret.v > b.v)), TRUE)
    ELSE VMRet(runtime_error(a, "Operands must be numbers"), FALSE)

bin_cmp_left(b, apply) == bin_cmp_apply(pop(b), b.ret, apply)

\* bin_cmp: apply is "<" or ">".
bin_cmp(m, apply) == bin_cmp_left(pop(m), apply)

define_method_insert(class, string_hash, method_value) ==
    IF class.st # "run" THEN class
    ELSE IF class.ret.t # "ClassIndex" \/ ~InRange(class.heap.classes, class.ret.v)
    THEN VMPanic(class)
    ELSE pop([class EXCEPT !.heap.classes[class.ret.v + 1].methods =
                  MapInsert(@, string_hash, method_value)])

define_method_class(method_value, string_hash) ==
    define_method_insert(vm_peek(method_value, 1), string_hash, method_value.ret)

define_method(m, string_hash) == define_method_class(vm_peek(m, 0), string_hash)

bind_method_alloc(receiver, closure_idx) ==
    IF receiver.st # "run" THEN receiver
    ELSE [receiver EXCEPT !.heap = alloc_bound_method(@,
             [receiver |-> receiver.ret, closure_idx |-> closure_idx])]

bind_method_bound(receiver, closure_idx, bound_method_idx) ==
    VMRet(push(pop(bind_method_alloc(receiver, closure_idx)),
               BoundMethodIndex(bound_method_idx)),
          TRUE)

\* bind_method: ret is its boolean result.
bind_method(m, class_idx, name_hash) ==
    IF m.st # "run" THEN m
    ELSE IF ~InRange(m.heap.classes, class_idx) THEN VMPanic(m)
    ELSE LET methods == At(m.heap.classes, class_idx).methods
         IN  IF name_hash \notin DOMAIN methods
             THEN VMRet(runtime_error(get_string(m, name_hash), "Undefined property"), FALSE)
             ELSE IF methods[name_hash].t # "ClosureIndex" THEN VMPanic(m)
             ELSE bind_method_bound(vm_peek(m, 0), methods[name_hash].v,
                                    Len(m.heap.bound_methods))
(***************************************************************************)
(* vm.rs, heap.rs: the garbage collector                                    *)
(***************************************************************************)
Range(f) == {f[x] : x \in DOMAIN f}

mark_roots(m) ==
    Range(m.stack) \cup Range(m.globals)
        \cup {StringHash(h) : h \in DOMAIN m.globals}
        \cup {ClosureIndex(m.callstack[k].closure_idx) : k \in 1..Len(m.callstack)}
        \cup {StringHash(m.init_string_hash)}

\* trace_references: what one object of the roots adds to them.
trace_object(m, object) ==
    CASE object.t = "ClosureIndex" ->
             LET closure == At(m.heap.closures, object.v)
             IN  Range(At(m.heap.functions, closure.func_idx).chunk.constants)
                     \cup {FunctionIndex(closure.func_idx)}
                     \cup {m.upvalues[closure.upvalues[k]].closed :
                              k \in {j \in 1..Len(closure.upvalues) :
                                         /\ closure.upvalues[j] # None
                                         /\ m.upvalues[closure.upvalues[j]].is_closed}}
      [] object.t = "InstanceIndex" ->
             LET fields == At(m.heap.instances, object.v).fields
             IN  Range(fields) \cup {StringHash(h) : h \in DOMAIN fields}
      [] object.t = "ClassIndex" ->
             LET methods == At(m.heap.classes, object.v).methods
             IN  Range(methods) \cup {StringHash(h) : h \in DOMAIN methods}
      [] OTHER -> {}

\* An object of the roots whose index is outside its container aborts the trace.
trace_in_range(m, object) ==
    CASE object.t = "ClosureIndex" ->
             /\ InRange(m.heap.closures, object.v)
             /\ InRange(m.heap.functions, At(m.heap.closures, object.v).func_idx)
      [] object.t = "InstanceIndex" -> InRange(m.heap.instances, object.v)
      [] object.t = "ClassIndex" -> InRange(m.heap.classes, object.v)
      [] OTHER -> TRUE

\* The loop is over a copy of the roots: what it adds is not traced itself.
trace_references(m, roots) ==
    roots \cup UNION {trace_object(m, object) : object \in roots}

Min(a, b) == IF a <= b THEN a ELSE b

\* bytes_allocated after n objects are freed, `size` at a time while more is left.
free_bytes(bytes, n, size) == bytes - size * Min(n, (Max(bytes, 1) - 1) \div size)

free_strings(h, marked) ==
    LET is_alive == {v.v : v \in {w \in marked : w.t = "StringHash"}}
        deletions == h.strings \ is_alive
    IN  [h EXCEPT !.bytes_allocated = free_bytes(@, Cardinality(deletions) + h.anonymous, SizeOfRef),
                  !.strings = @ \ deletions, !.anonymous = 0]

\* free_closures, free_functions: index only moves past an object that is
\* not alive, so the objects before the first live index are deleted.
dead_prefix(objects, is_alive) ==
    LET stops == {k \in 0..Len(objects) : k \in is_alive \/ k = Len(objects)}
    IN  CHOOSE k \in stops : \A j \in stops : k <= j

\* A sweep that deletes every closure that is not alive, with Vec::remove.
free_closures_unmarked(h, marked) ==
    LET is_alive == {v.v : v \in {w \in marked : w.t = "ClosureIndex"}}
        kept == {k \in 0..(Len(h.closures) - 1) : k \in is_alive}
        nth(n) == CHOOSE k \in kept : Cardinality({j \in kept : j < k}) = n - 1
    IN  [h EXCEPT !.bytes_allocated =
                      free_bytes(@, Len(h.closures) - Cardinality(kept), SizeOfRef),
                  !.closures = [n \in 1..Cardinality(kept) |-> At(h.closures, nth(n))]]

free_closures(h, marked) ==
    LET is_alive == {v.v : v \in {w \in marked : w.t = "ClosureIndex"}}
        deleted == dead_prefix(h.closures, is_alive)
    IN  [h EXCEPT !.bytes_allocated = free_bytes(@, deleted, SizeOfRef),
                  !.closures = SubSeq(@, deleted + 1, Len(@))]

free_functions(h, marked) ==
    LET is_alive == {v.v : v \in {w \in marked : w.t = "FunctionIndex"}}
        deleted == dead_prefix(h.functions, is_alive)
    IN  [h EXCEPT !.bytes_allocated = free_bytes(@, deleted, SizeOfRef),
                  !.functions = SubSeq(@, deleted + 1, Len(@))]

\* free_classes, free_instances: todo!()
free_classes(m, marked) == VMPanic(m)
free_instances(m, marked) == VMPanic(m)

sweep(m, marked) ==
    free_instances(
        free_classes(
            [m EXCEPT !.heap = free_functions(free_closures(free_strings(@, marked), marked), marked)],
            marked),
        marked)

run_gc_next(s) ==
    IF s.st # "run" THEN s
    ELSE [s EXCEPT !.heap.next_gc = Max(s.heap.bytes_allocated * GC_FACTOR, INITIAL_SIZE)]

run_gc(m, marked) == run_gc_next(sweep(m, marked))

is_ready_for_garbage_collection(h) == h.bytes_allocated > h.next_gc

try_run_garbage_collection_roots(m, roots) ==
    IF \E object \in roots : ~trace_in_range(m, object) THEN VMPanic(m)
    ELSE run_gc([m EXCEPT !.hist.gc = @ + 1,
                          !.hist.swept = [marked |-> trace_references(m, roots),
                                          strings |-> m.heap.strings,
                                          closures |-> Len(m.heap.closures),
                                          functions |-> Len(m.heap.functions),
                                          classes |-> Len(m.heap.classes),
                                          instances |-> Len(m.heap.instances),
                                          bytes_allocated |-> m.heap.bytes_allocated,
                                          next_gc |-> m.heap.next_gc]],
                trace_references(m, roots))

try_run_garbage_collection(m) ==
    IF m.st # "run" \/ ~is_ready_for_garbage_collection(m.heap) THEN m
    ELSE try_run_garbage_collection_roots(m, mark_roots(m))
(***************************************************************************)
(* vm.rs VM::run: the arms of the match on the opcode, as operators on the  *)
(* VM after the opcode is read.                                             *)
(***************************************************************************)
\* self.ip and self.curr_func_idx are loaded from the last call frame.
load_frame(m) ==
    IF m.st # "run" THEN m
    ELSE IF m.callstack = <<>> THEN VMPanic(m)
    ELSE LET curr_frame == m.callstack[Len(m.callstack)]
         IN  IF ~InRange(m.heap.closures, curr_frame.closure_idx) THEN VMPanic(m)
             ELSE [m EXCEPT !.ip = curr_frame.ip,
                            !.curr_func_idx = At(m.heap.closures, curr_frame.closure_idx).func_idx]

arm_constant_push(constant) == push(constant, constant.ret)

arm_constant(m) == arm_constant_push(read_constant(m))

arm_define_global_insert(value, str_hash) ==
    IF value.st # "run" THEN value
    ELSE fpop([value EXCEPT !.globals = MapInsert(@, str_hash, value.ret)])

arm_define_global_value(str) == arm_define_global_insert(vm_peek(str, 0), str.ret)

arm_define_global(m) == arm_define_global_value(read_string(m))

arm_get_global_value(str) ==
    IF str.st # "run" THEN str
    ELSE IF str.ret \notin DOMAIN str.globals
    THEN RuntimeError(runtime_error(get_string(str, str.ret), "Undefined variable"))
    ELSE push(str, str.globals[str.ret])

arm_get_global(m) == arm_get_global_value(read_string(m))

arm_set_global_insert(value, str_hash) ==
    IF value.st # "run" THEN value
    ELSE [value EXCEPT !.globals = MapInsert(@, str_hash, value.ret)]

arm_set_global_value(str) ==
    IF str.st # "run" THEN str
    ELSE IF str.ret \notin DOMAIN str.globals
    THEN RuntimeError(runtime_error(get_string(str, str.ret), "Undefined variable"))
    ELSE arm_set_global_insert(vm_peek(str, 0), str.ret)

\* SetGlobal without the test of is_none(): the insert creates the global.
arm_set_global_created(m) ==
    arm_set_global_insert(vm_peek(read_string(m), 0), read_string(m).ret)

arm_set_global(m) == arm_set_global_value(read_string(m))

\* self.callstack.last().unwrap()
last_frame(m) == m.callstack[Len(m.callstack)]

arm_get_local_value(slot) ==
    IF slot.st # "run" THEN slot
    ELSE IF slot.callstack = <<>> THEN VMPanic(slot)
    ELSE IF ~InRange(slot.stack, slot.ret + last_frame(slot).slot_offset) THEN VMPanic(slot)
    ELSE push(slot, At(slot.stack, slot.ret + last_frame(slot).slot_offset))

arm_get_local(m) == arm_get_local_value(read_byte(m))

\* A store to a local is a write of the variable: what was written to it
\* through an upvalue before is no longer what a read must yield.
arm_set_local_store(value, index) ==
    IF value.st # "run" THEN value
    ELSE IF ~InRange(value.stack, index) THEN VMPanic(value)
    ELSE [value EXCEPT !.stack = Put(@, index, value.ret), !.hist.written = EmptyMap]

arm_set_local_value(slot) ==
    IF slot.st # "run" THEN slot
    ELSE IF slot.callstack = <<>> THEN VMPanic(slot)
    ELSE arm_set_local_store(vm_peek(slot, 0), slot.ret + last_frame(slot).slot_offset)

arm_set_local(m) == arm_set_local_value(read_byte(m))

arm_get_upvalue_push(value, cell) ==
    IF value.st # "run" THEN value
    ELSE push([value EXCEPT !.hist.read = [cell |-> cell, value |-> value.ret]], value.ret)

arm_get_upvalue_value(slot) ==
    IF slot.st # "run" THEN slot
    ELSE IF slot.callstack = <<>> THEN VMPanic(slot)
    ELSE arm_get_upvalue_push(
             resolve_upvalue_location(slot, slot.ret, last_frame(slot).closure_idx),
             closure_upvalue(slot, slot.ret, last_frame(slot).closure_idx).ret)

arm_get_upvalue(m) == arm_get_upvalue_value(read_byte(m))

\* hist.set: the cell that was assigned, the value assigned to it, and
\* whether the variable was still in scope on the stack.
arm_set_upvalue_record(w, cell, value) ==
    IF w.st # "run" \/ value.st # "run" \/ cell = None THEN w
    ELSE [w EXCEPT !.hist.written = MapInsert(@, cell, value.ret),
                   !.hist.at_return = [c \in DOMAIN @ \ {cell} |-> @[c]],
                   !.hist.set = [cell |-> cell, value |-> value.ret,
                                 open |-> cell \in w.hist.spec_open]]

arm_set_upvalue_location(slot) ==
    IF slot.st # "run" THEN slot
    ELSE IF slot.callstack = <<>> THEN VMPanic(slot)
    ELSE arm_set_upvalue_record(
             set_upvalue_location(slot, slot.ret, last_frame(slot).closure_idx),
             closure_upvalue(slot, slot.ret, last_frame(slot).closure_idx).ret,
             vm_peek(slot, 0))

arm_set_upvalue(m) == arm_set_upvalue_location(read_byte(m))

\* hist.getprop: which way the arm went.
arm_get_property_bound(bound) ==
    IF bound.st = "run" /\ bound.ret = FALSE
    THEN RuntimeError(runtime_error([bound EXCEPT !.hist.getprop = "undefined"],
                                    "Undefined property"))
    ELSE IF bound.st # "run" THEN bound
    ELSE [bound EXCEPT !.hist.getprop = "method"]

\* GetProperty that looks for a method of the class before the fields.
arm_get_property_method_first(field_name, instance, field_name_hash) ==
    IF /\ InRange(field_name.heap.classes, instance.class_idx)
       /\ field_name_hash \in DOMAIN At(field_name.heap.classes, instance.class_idx).methods
    THEN arm_get_property_bound(bind_method(field_name, instance.class_idx, field_name_hash))
    ELSE IF field_name_hash \in DOMAIN instance.fields
    THEN push(fpop([field_name EXCEPT !.hist.getprop = "field"]),
              instance.fields[field_name_hash])
    ELSE arm_get_property_bound(bind_method(field_name, instance.class_idx, field_name_hash))

arm_get_property_field(field_name, instance, field_name_hash) ==
    IF field_name_hash \in DOMAIN instance.fields
    THEN push(fpop([field_name EXCEPT !.hist.getprop = "field"]),
              instance.fields[field_name_hash])
    ELSE arm_get_property_bound(bind_method(field_name, instance.class_idx, field_name_hash))

arm_get_property_instance(field_name, instance_idx, field_name_hash) ==
    IF field_name.st # "run" THEN field_name
    ELSE IF ~InRange(field_name.heap.instances, instance_idx) THEN VMPanic(field_name)
    ELSE arm_get_property_field(field_name, At(field_name.heap.instances, instance_idx),
                                field_name_hash)

arm_get_property_name(field_name_hash, instance_idx) ==
    arm_get_property_instance(get_string(field_name_hash, field_name_hash.ret),
                              instance_idx, field_name_hash.ret)

\* as_instance_index aborts on a value that is not an instance.
arm_get_property_index(top) ==
    IF top.st # "run" THEN top
    ELSE IF top.ret.t # "InstanceIndex"
    THEN VMPanic([top EXCEPT !.hist.getprop = "not an instance"])
    ELSE arm_get_property_name(read_string(top), top.ret.v)

arm_get_property(m) == arm_get_property_index(vm_peek(m, 0))

arm_set_property_insert(value, instance_idx, field_name_hash) ==
    IF value.st # "run" THEN value
    ELSE IF ~InRange(value.heap.instances, instance_idx) THEN VMPanic(value)
    ELSE push(fpop([value EXCEPT !.heap.instances[instance_idx + 1].fields =
                        MapInsert(@, field_name_hash, value.ret)]),
              value.ret)

arm_set_property_name(field_name_hash, instance_idx) ==
    arm_set_property_insert(pop(field_name_hash), instance_idx, field_name_hash.ret)

arm_set_property_index(target) ==
    IF target.st # "run" THEN target
    ELSE IF target.ret.t # "InstanceIndex"
    THEN RuntimeError(runtime_error(target, "Only instance have fields."))
    ELSE arm_set_property_name(read_string(target), target.ret.v)

arm_set_property(m) == arm_set_property_index(vm_peek(m, 1))

arm_equal_push(a, b) == IF a.st # "run" THEN a ELSE push(a, Bool(ValueEq(a.ret, b)))

arm_equal_left(b) == arm_equal_push(pop(b), b.ret)

arm_equal(m) == arm_equal_left(pop(m))

\* An Add that lets the heap collect when the merged string is allocated.
arm_add_merged_collect(str_a, str_b) ==
    IF str_a.st # "run" THEN str_a
    ELSE push(fpop(fpop(try_run_garbage_collection(
                  [str_a EXCEPT !.heap = alloc_string(@, str_b \o str_a.ret)]))),
              StringHash(hash_string(str_b \o str_a.ret)))

arm_add_merged(str_a, str_b) ==
    IF str_a.st # "run" THEN str_a
    ELSE push(fpop(fpop([str_a EXCEPT !.heap = alloc_string(@, str_b \o str_a.ret)])),
              StringHash(hash_string(str_b \o str_a.ret)))

\* str_b is the string of a, str_a the string of b.
arm_add_strings(str_b, b) == arm_add_merged(get_string(str_b, b.v), str_b.ret)

arm_add_values(a, b) ==
    IF a.st # "run" THEN a
    ELSE IF a.ret.t = "Number" /\ b.t = "Number"
    THEN push(fpop(fpop(a)), Number(a.ret.v + b.v))
    ELSE IF a.ret.t = "StringHash" /\ b.t = "StringHash"
    THEN arm_add_strings(get_string(a, a.ret.v), b)
    ELSE RuntimeError(runtime_error(a, "Operands must be numbers or two strings"))

arm_add_left(b) == arm_add_values(vm_peek(b, 1), b.ret)

arm_add(m) == arm_add_left(vm_peek(m, 0))

arm_negate_value(value) ==
    IF value.st # "run" THEN value
    ELSE IF value.ret.t = "Number" THEN push(value, Number(0 - value.ret.v))
    ELSE RuntimeError(runtime_error(value, "Operand must be a number."))

arm_negate(m) == arm_negate_value(pop(m))

arm_not_value(value) ==
    IF value.st # "run" THEN value
    ELSE IF value.ret.t = "Bool" THEN push(value, Bool(value.ret.v = 0))
    ELSE RuntimeError(runtime_error(value, "Operand must be a boolean."))

arm_not(m) == arm_not_value(pop(m))

arm_jump_offset(offset) ==
    IF offset.st # "run" THEN offset ELSE [offset EXCEPT !.ip = @ + offset.ret]

arm_jump(m) == arm_jump_offset(read_short(m))

\* as_boolean aborts on a value that is not a boolean.
arm_jump_if_false_value(value, offset) ==
    IF value.st # "run" THEN value
    ELSE IF value.ret.t # "Bool" THEN VMPanic(value)
    ELSE IF value.ret.v = 0 THEN [value EXCEPT !.ip = @ + offset]
    ELSE value

arm_jump_if_false_offset(offset) == arm_jump_if_false_value(vm_peek(offset, 0), offset.ret)

arm_jump_if_false(m) == arm_jump_if_false_offset(read_short(m))

arm_loop_jump(d) == IF d.st # "run" THEN d ELSE [d EXCEPT !.ip = d.ret]

arm_loop_offset(offset) == arm_loop_jump(usize_sub(offset, offset.ip, offset.ret))

arm_loop(m) == arm_loop_offset(read_short(m))

arm_call_frame(called) ==
    IF called.st # "run" THEN called
    ELSE IF called.ret = FALSE THEN RuntimeError(called)
    ELSE load_frame(called)

arm_call_value(callee, arg_count) ==
    IF callee.st # "run" THEN callee
    ELSE arm_call_frame(call_value(callee, callee.ret, arg_count))

\* The ip of the caller is stored in its frame.
arm_call_count(arg_count) ==
    IF arg_count.st # "run" THEN arg_count
    ELSE IF arg_count.callstack = <<>> THEN VMPanic(arg_count)
    ELSE arm_call_value(
             vm_peek([arg_count EXCEPT !.callstack[Len(arg_count.callstack)].ip = arg_count.ip],
                     arg_count.ret),
             arg_count.ret)

arm_call(m) == arm_call_count(read_byte(m))

\* hist.out: what was printed.
arm_print_content(content) ==
    IF content.st # "run" THEN content
    ELSE IF content.ret.t = "StringHash" /\ content.ret.v \notin content.heap.strings
    THEN VMPanic(content)
    ELSE [content EXCEPT !.hist.out = Append(@, content.ret)]

arm_print(m) == arm_print_content(pop(m))

arm_closure_push(closure_idx, upvalue_count) ==
    closure_upvalues(push(closure_idx, ClosureIndex(closure_idx.ret)),
                     closure_idx.ret, 0, upvalue_count)

arm_closure_new(func_idx, upvalue_count) ==
    arm_closure_push(new_closure(func_idx, func_idx.ret.v, upvalue_count), upvalue_count)

arm_closure_function(func_idx) ==
    IF func_idx.st # "run" THEN func_idx
    ELSE IF func_idx.ret.t # "FunctionIndex"
            \/ ~InRange(func_idx.heap.functions, func_idx.ret.v)
    THEN VMPanic(func_idx)
    ELSE arm_closure_new(func_idx, At(func_idx.heap.functions, func_idx.ret.v).upvalue_count)

arm_closure(m) == arm_closure_function(read_constant(m))

\* The scope of the local in the popped slot, slot scope_end, ends here.
arm_close_value_close(d, scope_end) ==
    IF d.st # "run" THEN d
    ELSE close_upvalues([d EXCEPT !.hist.spec_open = {c \in @ : d.hist.home[c] # scope_end}],
                        d.ret)

arm_close_value_popped(popped) ==
    arm_close_value_close(usize_sub(popped, popped.stack_top, 1), popped.stack_top)

arm_close_value(m) == arm_close_value_popped(fpop(m))

arm_class_alloc(class_name) ==
    IF class_name.st # "run" THEN class_name
    ELSE push([class_name EXCEPT
                  !.heap = alloc_class(@, [name |-> class_name.ret, methods |-> EmptyMap])],
              ClassIndex(Len(class_name.heap.classes)))

arm_class_name(str_hash) == arm_class_alloc(get_string(str_hash, str_hash.ret))

arm_class(m) == arm_class_name(read_string(m))

arm_method_define(string_hash) == define_method(string_hash, string_hash.ret)

arm_method(m) == arm_method_define(read_string(m))

\* The captured locals of the returning frame that are still in scope.
returning(m, slot_offset) ==
    {c \in m.hist.spec_open : usize_geq(m.hist.home[c], slot_offset)}

\* for _ in frame_to_delete.slot_offset..stack_len { self.fpop() }; at_return
\* keeps what the slots of the captured locals hold now.
arm_return_discard(m, slot_offset, closing) ==
    [m EXCEPT !.stack_top = IF usize_geq(slot_offset, @) THEN @ ELSE slot_offset,
              !.hist.spec_open = @ \ closing,
              !.hist.at_return = [c \in DOMAIN @ \cup closing |->
                                      IF c \in closing THEN At(m.stack, m.hist.home[c])
                                      ELSE @[c]]]

\* The main function returned: return RunResult::Ok.
arm_return_main(f) == IF f.st # "run" THEN f ELSE [f EXCEPT !.st = "Ok"]

arm_return_frame(m, frame_to_delete, value) ==
    IF m.callstack = <<>> THEN arm_return_main(fpop(m))
    ELSE load_frame(push(close_upvalues(arm_return_discard(m, frame_to_delete.slot_offset,
                                            returning(m, frame_to_delete.slot_offset)),
                                        frame_to_delete.slot_offset),
                         value))

arm_return_value(value) ==
    IF value.st # "run" THEN value
    ELSE IF value.callstack = <<>> THEN VMPanic(value)
    ELSE arm_return_frame([value EXCEPT !.callstack = SubSeq(@, 1, Len(@) - 1),
                                         !.hist.returned =
                                             [slot |-> last_frame(value).slot_offset,
                                              value |-> value.ret,
                                              depth |-> Len(value.callstack),
                                              instance |->
                                                  IF Len(value.callstack) \in DOMAIN value.hist.construct
                                                  THEN value.hist.construct[Len(value.callstack)]
                                                  ELSE NoIndex],
                                         !.hist.construct =
                                             [d \in DOMAIN @ \ {Len(value.callstack)} |-> @[d]]],
                          last_frame(value), value.ret)

\* A Return that keeps the cached function of the frame that returned.
arm_return_cached(m) ==
    LET returned == arm_return_value(pop(m))
    IN  IF returned.st # "run" THEN returned
        ELSE [returned EXCEPT !.curr_func_idx = m.curr_func_idx]

arm_return(m) == arm_return_value(pop(m))
(***************************************************************************)
(* Opcode::Invoke.  Parser::dot emits it, and VM::run under src/ has no arm *)
(* for it: the arm is modelled from the opcode table of the specification, *)
(* "1-byte name const idx, 1-byte arg count: shortcut for GetProperty +     *)
(* Call on methods".  The receiver is below the arguments; a field of that  *)
(* name is called as a value, otherwise the method of the class is called   *)
(* on the receiver without a bound method being allocated.                  *)
(* hist.invoke: the slot of the receiver, the receiver, the arguments and   *)
(* the closure of a method that Invoke called.                              *)
(***************************************************************************)
NoInvoke == [base |-> NoLocation, receiver |-> Nil, args |-> <<>>, closure |-> NoIndex, depth |-> 0]

arm_invoke_frame(called, receiver, closure_idx, arg_count) ==
    IF called.st # "run" THEN called
    ELSE IF called.ret = FALSE THEN RuntimeError(called)
    ELSE load_frame([called EXCEPT !.hist.invoke =
             [base |-> called.stack_top - 1 - arg_count, receiver |-> receiver,
              args |-> SubSeq(called.stack, called.stack_top - arg_count + 1, called.stack_top),
              closure |-> closure_idx, depth |-> Len(called.callstack)]])

arm_invoke_method(r, methods, name_hash, arg_count) ==
    IF name_hash \notin DOMAIN methods
    THEN RuntimeError(runtime_error(r, "Undefined property"))
    ELSE IF methods[name_hash].t # "ClosureIndex" THEN VMPanic(r)
    ELSE arm_invoke_frame(vm_call(r, methods[name_hash].v, arg_count), r.ret,
                          methods[name_hash].v, arg_count)

arm_invoke_field(r, value, arg_count) ==
    IF ~InRange(r.stack, r.stack_top - arg_count - 1) THEN VMPanic(r)
    ELSE arm_call_frame(call_value([r EXCEPT !.stack = Put(@, r.stack_top - arg_count - 1, value)],
                                   value, arg_count))

arm_invoke_instance(r, instance, name_hash, arg_count) ==
    IF name_hash \in DOMAIN instance.fields
    THEN arm_invoke_field(r, instance.fields[name_hash], arg_count)
    ELSE IF ~InRange(r.heap.classes, instance.class_idx) THEN VMPanic(r)
    ELSE arm_invoke_method(r, At(r.heap.classes, instance.class_idx).methods, name_hash,
                           arg_count)

\* r.ret is the receiver.
arm_invoke_receiver(r, name_hash, arg_count) ==
    IF r.st # "run" THEN r
    ELSE IF r.ret.t # "InstanceIndex"
    THEN RuntimeError(runtime_error(r, "Only instances have methods."))
    ELSE IF ~InRange(r.heap.instances, r.ret.v) THEN VMPanic(r)
    ELSE arm_invoke_instance(r, At(r.heap.instances, r.ret.v), name_hash, arg_count)

\* The ip of the caller is stored in its frame, as Opcode::Call does.
arm_invoke_count(arg_count, name_hash) ==
    IF arg_count.st # "run" THEN arg_count
    ELSE IF arg_count.callstack = <<>> THEN VMPanic(arg_count)
    ELSE arm_invoke_receiver(
             vm_peek([arg_count EXCEPT !.callstack[Len(arg_count.callstack)].ip = arg_count.ip,
                                       !.hist.invoke = NoInvoke],
                     arg_count.ret),
             name_hash, arg_count.ret)

arm_invoke_name(name) ==
    IF name.st # "run" THEN name ELSE arm_invoke_count(read_byte(name), name.ret)

arm_invoke(m) == arm_invoke_name(read_string(m))

(***************************************************************************)
(* vm.rs VM::run: one action per opcode.  Each action is one turn of the   *)
(* loop: the opcode is read, its arm runs, and, unless the arm returned,    *)
(* the garbage-collection check and the increment of ip_counter follow.     *)
(***************************************************************************)
MaxInstructions == 6000

Fetch == read_byte(VMState)

Commit(m) ==
    /\ ip' = m.ip
    /\ stack' = m.stack
    /\ stack_top' = m.stack_top
    /\ callstack' = m.callstack
    /\ globals' = m.globals
    /\ heap' = m.heap
    /\ curr_func_idx' = m.curr_func_idx
    /\ open_upvalues' = m.open_upvalues
    /\ upvalues' = m.upvalues
    /\ init_string_hash' = m.init_string_hash
    /\ hist' = IF m.st = "panic" THEN [m.hist EXCEPT !.abort_at = "run"] ELSE m.hist
    /\ result' = IF m.st = "run" THEN "running" ELSE m.st
    /\ pc' = CASE m.st = "run" -> "run"
               [] m.st = "panic" -> "aborted"
               [] OTHER -> "returned"
    /\ ip_counter' = IF m.st = "run" THEN ip_counter + 1 ELSE ip_counter
    /\ UNCHANGED <<build, mode, input, parser, had_error, exit_code>>

Step(opcode, m) ==
    /\ pc = "run"
    /\ ip_counter < MaxInstructions
    /\ Fetch.st = "run"
    /\ Fetch.ret = opcode
    /\ Commit(IF ip_counter % CHECK_GC_INTERVAL = 0
              THEN try_run_garbage_collection([m EXCEPT !.hist.op = opcode])
              ELSE [m EXCEPT !.hist.op = opcode])

RunConstant == Step(OpConstant, arm_constant(Fetch))
RunNil == Step(OpNil, push(Fetch, Nil))
RunTrue == Step(OpTrue, push(Fetch, Bool(TRUE)))
RunFalse == Step(OpFalse, push(Fetch, Bool(FALSE)))
RunPop == Step(OpPop, fpop(Fetch))
RunDefineGlobal == Step(OpDefineGlobal, arm_define_global(Fetch))
RunGetGlobal == Step(OpGetGlobal, arm_get_global(Fetch))
RunSetGlobal == Step(OpSetGlobal, arm_set_global(Fetch))
RunGetLocal == Step(OpGetLocal, arm_get_local(Fetch))
RunSetLocal == Step(OpSetLocal, arm_set_local(Fetch))
RunGetUpvalue == Step(OpGetUpvalue, arm_get_upvalue(Fetch))
RunSetUpvalue == Step(OpSetUpvalue, arm_set_upvalue(Fetch))
RunGetProperty == Step(OpGetProperty, arm_get_property(Fetch))
RunSetProperty == Step(OpSetProperty, arm_set_property(Fetch))
RunEqual == Step(OpEqual, arm_equal(Fetch))
RunAdd == Step(OpAdd, arm_add(Fetch))
RunMultiply == Step(OpMultiply, check_result(bin_ops(Fetch, "*")))
RunDivide == Step(OpDivide, check_result(bin_ops(Fetch, "/")))
RunSubtract == Step(OpSubtract, check_result(bin_ops(Fetch, "-")))
RunLess == Step(OpLess, check_result(bin_cmp(Fetch, "<")))
RunGreater == Step(OpGreater, check_result(bin_cmp(Fetch, ">")))
RunNegate == Step(OpNegate, arm_negate(Fetch))
RunNot == Step(OpNot, arm_not(Fetch))
RunJump == Step(OpJump, arm_jump(Fetch))
RunJumpIfFalse == Step(OpJumpIfFalse, arm_jump_if_false(Fetch))
RunLoop == Step(OpLoop, arm_loop(Fetch))
RunCall == Step(OpCall, arm_call(Fetch))
RunPrint == Step(OpPrint, arm_print(Fetch))
RunClosure == Step(OpClosure, arm_closure(Fetch))
RunCloseValue == Step(OpCloseValue, arm_close_value(Fetch))
RunClass == Step(OpClass, arm_class(Fetch))
RunMethod == Step(OpMethod, arm_method(Fetch))
RunInvoke == Step(OpInvoke, arm_invoke(Fetch))
RunReturn == Step(OpReturn, arm_return(Fetch))
(***************************************************************************)
(* The inputs: source files and REPL lines, as the token lists that         *)
(* scanner.rs produces for the text in the comment above each.              *)
(***************************************************************************)
\* A file that ends with declarations the run never reaches: FillStrings is
\* the number of their string literals, just under INITIAL_SIZE bytes of them.
FillStrings == 43668

\* var a = 1; var b = 2; print a + b * 3 - 4 / 2; print -a; print !true; print a < b;
\* print a > b; print a == b; print a != b; if (a <= b) print "hi"; else print nil;
\* while (a < 3) a = a + 1; for (var i = 0; i < 2; i = i + 1) { print i; } { var c = a;
\* c = 2; print c; } print "a" + "b"; print str(1); print true and false; print false
\* or true;
ProgArith ==
    [kind |-> "source", fill |-> 0, tokens |->
      <<Tok("Var"), Id("a"), Tok("Equal"), Num(1), Tok("Semicolon"), Tok("Var"), Id("b"),
        Tok("Equal"), Num(2), Tok("Semicolon"), Tok("Print"), Id("a"), Tok("Plus"), Id("b"),
        Tok("Star"), Num(3), Tok("Minus"), Num(4), Tok("Slash"), Num(2), Tok("Semicolon"),
        Tok("Print"), Tok("Minus"), Id("a"), Tok("Semicolon"), Tok("Print"), Tok("Bang"),
        Tok("True"), Tok("Semicolon"), Tok("Print"), Id("a"), Tok("Less"), Id("b"),
        Tok("Semicolon"), Tok("Print"), Id("a"), Tok("Greater"), Id("b"), Tok("Semicolon"),
        Tok("Print"), Id("a"), Tok("EqualEqual"), Id("b"), Tok("Semicolon"), Tok("Print"),
        Id("a"), Tok("BangEqual"), Id("b"), Tok("Semicolon"), Tok("If"), Tok("LeftParen"),
        Id("a"), Tok("LessEqual"), Id("b"), Tok("RightParen"), Tok("Print"), Str("hi"),
        Tok("Semicolon"), Tok("Else"), Tok("Print"), Tok("Nil"), Tok("Semicolon"), Tok("While"),
        Tok("LeftParen"), Id("a"), Tok("Less"), Num(3), Tok("RightParen"), Id("a"),
        Tok("Equal"), Id("a"), Tok("Plus"), Num(1), Tok("Semicolon"), Tok("For"),
        Tok("LeftParen"), Tok("Var"), Id("i"), Tok("Equal"), Num(0), Tok("Semicolon"), Id("i"),
        Tok("Less"), Num(2), Tok("Semicolon"), Id("i"), Tok("Equal"), Id("i"), Tok("Plus"),
        Num(1), Tok("RightParen"), Tok("LeftBrace"), Tok("Print"), Id("i"), Tok("Semicolon"),
        Tok("RightBrace"), Tok("LeftBrace"), Tok("Var"), Id("c"), Tok("Equal"), Id("a"),
        Tok("Semicolon"), Id("c"), Tok("Equal"), Num(2), Tok("Semicolon"), Tok("Print"),
        Id("c"), Tok("Semicolon"), Tok("RightBrace"), Tok("Print"), Str("a"), Tok("Plus"),
        Str("b"), Tok("Semicolon"), Tok("Print"), Id("str"), Tok("LeftParen"), Num(1),
        Tok("RightParen"), Tok("Semicolon"), Tok("Print"), Tok("True"), Tok("And"),
        Tok("False"), Tok("Semicolon"), Tok("Print"), Tok("False"), Tok("Or"), Tok("True"),
        Tok("Semicolon"), Eof>>]

\* fun outer() { var x = 1; fun inner() { x = 2; print 5; print x; } inner(); return x;
\* } print outer();
ProgSetUpvalue ==
    [kind |-> "source", fill |-> 0, tokens |->
      <<Tok("Fun"), Id("outer"), Tok("LeftParen"), Tok("RightParen"), Tok("LeftBrace"),
        Tok("Var"), Id("x"), Tok("Equal"), Num(1), Tok("Semicolon"), Tok("Fun"), Id("inner"),
        Tok("LeftParen"), Tok("RightParen"), Tok("LeftBrace"), Id("x"), Tok("Equal"), Num(2),
        Tok("Semicolon"), Tok("Print"), Num(5), Tok("Semicolon"), Tok("Print"), Id("x"),
        Tok("Semicolon"), Tok("RightBrace"), Id("inner"), Tok("LeftParen"), Tok("RightParen"),
        Tok("Semicolon"), Tok("Return"), Id("x"), Tok("Semicolon"), Tok("RightBrace"),
        Tok("Print"), Id("outer"), Tok("LeftParen"), Tok("RightParen"), Tok("Semicolon"), Eof>>]

\* fun outer() { var x = 1; fun inner() { return x; } return inner; } var f = outer();
\* print f();
ProgClosed ==
    [kind |-> "source", fill |-> 0, tokens |->
      <<Tok("Fun"), Id("outer"), Tok("LeftParen"), Tok("RightParen"), Tok("LeftBrace"),
        Tok("Var"), Id("x"), Tok("Equal"), Num(1), Tok("Semicolon"), Tok("Fun"), Id("inner"),
        Tok("LeftParen"), Tok("RightParen"), Tok("LeftBrace"), Tok("Return"), Id("x"),
        Tok("Semicolon"), Tok("RightBrace"), Tok("Return"), Id("inner"), Tok("Semicolon"),
        Tok("RightBrace"), Tok("Var"), Id("f"), Tok("Equal"), Id("outer"), Tok("LeftParen"),
        Tok("RightParen"), Tok("Semicolon"), Tok("Print"), Id("f"), Tok("LeftParen"),
        Tok("RightParen"), Tok("Semicolon"), Eof>>]

\* var g; fun outer() { var a = 1; { var b = 2; fun inner() { return a + b; } g =
\* inner; } a = 5; return a; } print outer(); print g();
ProgBlock ==
    [kind |-> "source", fill |-> 0, tokens |->
      <<Tok("Var"), Id("g"), Tok("Semicolon"), Tok("Fun"), Id("outer"), Tok("LeftParen"),
        Tok("RightParen"), Tok("LeftBrace"), Tok("Var"), Id("a"), Tok("Equal"), Num(1),
        Tok("Semicolon"), Tok("LeftBrace"), Tok("Var"), Id("b"), Tok("Equal"), Num(2),
        Tok("Semicolon"), Tok("Fun"), Id("inner"), Tok("LeftParen"), Tok("RightParen"),
        Tok("LeftBrace"), Tok("Return"), Id("a"), Tok("Plus"), Id("b"), Tok("Semicolon"),
        Tok("RightBrace"), Id("g"), Tok("Equal"), Id("inner"), Tok("Semicolon"),
        Tok("RightBrace"), Id("a"), Tok("Equal"), Num(5), Tok("Semicolon"), Tok("Return"),
        Id("a"), Tok("Semicolon"), Tok("RightBrace"), Tok("Print"), Id("outer"),
        Tok("LeftParen"), Tok("RightParen"), Tok("Semicolon"), Tok("Print"), Id("g"),
        Tok("LeftParen"), Tok("RightParen"), Tok("Semicolon"), Eof>>]

\* fun f(a) { print a; } f();
ProgArity ==
    [kind |-> "source", fill |-> 0, tokens |->
      <<Tok("Fun"), Id("f"), Tok("LeftParen"), Id("a"), Tok("RightParen"), Tok("LeftBrace"),
        Tok("Print"), Id("a"), Tok("Semicolon"), Tok("RightBrace"), Id("f"), Tok("LeftParen"),
        Tok("RightParen"), Tok("Semicolon"), Eof>>]

\* class A { init(x) { print x; } } A();
ProgArityInit ==
    [kind |-> "source", fill |-> 0, tokens |->
      <<Tok("Class"), Id("A"), Tok("LeftBrace"), Id("init"), Tok("LeftParen"), Id("x"),
        Tok("RightParen"), Tok("LeftBrace"), Tok("Print"), Id("x"), Tok("Semicolon"),
        Tok("RightBrace"), Tok("RightBrace"), Id("A"), Tok("LeftParen"), Tok("RightParen"),
        Tok("Semicolon"), Eof>>]

\* class A { get() { return 1; } } var o = A(); var m = o.get; m(1);
ProgArityMethod ==
    [kind |-> "source", fill |-> 0, tokens |->
      <<Tok("Class"), Id("A"), Tok("LeftBrace"), Id("get"), Tok("LeftParen"), Tok("RightParen"),
        Tok("LeftBrace"), Tok("Return"), Num(1), Tok("Semicolon"), Tok("RightBrace"),
        Tok("RightBrace"), Tok("Var"), Id("o"), Tok("Equal"), Id("A"), Tok("LeftParen"),
        Tok("RightParen"), Tok("Semicolon"), Tok("Var"), Id("m"), Tok("Equal"), Id("o"),
        Tok("Dot"), Id("get"), Tok("Semicolon"), Id("m"), Tok("LeftParen"), Num(1),
        Tok("RightParen"), Tok("Semicolon"), Eof>>]

\* fun f() { f(); } f();
ProgRecursion ==
    [kind |-> "source", fill |-> 0, tokens |->
      <<Tok("Fun"), Id("f"), Tok("LeftParen"), Tok("RightParen"), Tok("LeftBrace"), Id("f"),
        Tok("LeftParen"), Tok("RightParen"), Tok("Semicolon"), Tok("RightBrace"), Id("f"),
        Tok("LeftParen"), Tok("RightParen"), Tok("Semicolon"), Eof>>]

\* print x;
ProgUndefinedVariable ==
    [kind |-> "source", fill |-> 0, tokens |->
      <<Tok("Print"), Id("x"), Tok("Semicolon"), Eof>>]

\* x = 1;
ProgUndefinedAssign ==
    [kind |-> "source", fill |-> 0, tokens |->
      <<Id("x"), Tok("Equal"), Num(1), Tok("Semicolon"), Eof>>]

\* var x = 1; print x = 2; print x; y = 3; print 4;
ProgSetGlobal ==
    [kind |-> "source", fill |-> 0, tokens |->
      <<Tok("Var"), Id("x"), Tok("Equal"), Num(1), Tok("Semicolon"), Tok("Print"), Id("x"),
        Tok("Equal"), Num(2), Tok("Semicolon"), Tok("Print"), Id("x"), Tok("Semicolon"),
        Id("y"), Tok("Equal"), Num(3), Tok("Semicolon"), Tok("Print"), Num(4),
        Tok("Semicolon"), Eof>>]

\* print str == str; print str == clock; print "a" == "a"; print "a" == "b";
\* fun f() {} print f == f; class A {} print A == A; var o = A(); print o == o;
\* print o == A(); print f == A;
ProgEqual ==
    [kind |-> "source", fill |-> 0, tokens |->
      <<Tok("Print"), Id("str"), Tok("EqualEqual"), Id("str"), Tok("Semicolon"),
        Tok("Print"), Id("str"), Tok("EqualEqual"), Id("clock"), Tok("Semicolon"),
        Tok("Print"), Str("a"), Tok("EqualEqual"), Str("a"), Tok("Semicolon"),
        Tok("Print"), Str("a"), Tok("EqualEqual"), Str("b"), Tok("Semicolon"),
        Tok("Fun"), Id("f"), Tok("LeftParen"), Tok("RightParen"), Tok("LeftBrace"),
        Tok("RightBrace"), Tok("Print"), Id("f"), Tok("EqualEqual"), Id("f"),
        Tok("Semicolon"), Tok("Class"), Id("A"), Tok("LeftBrace"), Tok("RightBrace"),
        Tok("Print"), Id("A"), Tok("EqualEqual"), Id("A"), Tok("Semicolon"), Tok("Var"),
        Id("o"), Tok("Equal"), Id("A"), Tok("LeftParen"), Tok("RightParen"),
        Tok("Semicolon"), Tok("Print"), Id("o"), Tok("EqualEqual"), Id("o"),
        Tok("Semicolon"), Tok("Print"), Id("o"), Tok("EqualEqual"), Id("A"),
        Tok("LeftParen"), Tok("RightParen"), Tok("Semicolon"), Tok("Print"), Id("f"),
        Tok("EqualEqual"), Id("A"), Tok("Semicolon"), Eof>>]

\* class A { hi() { return 1; } } var o = A(); var g = o.hi; print g(); o.hi = 5;
\* print o.hi;
ProgShadow ==
    [kind |-> "source", fill |-> 0, tokens |->
      <<Tok("Class"), Id("A"), Tok("LeftBrace"), Id("hi"), Tok("LeftParen"),
        Tok("RightParen"), Tok("LeftBrace"), Tok("Return"), Num(1), Tok("Semicolon"),
        Tok("RightBrace"), Tok("RightBrace"), Tok("Var"), Id("o"), Tok("Equal"), Id("A"),
        Tok("LeftParen"), Tok("RightParen"), Tok("Semicolon"), Tok("Var"), Id("g"),
        Tok("Equal"), Id("o"), Tok("Dot"), Id("hi"), Tok("Semicolon"), Tok("Print"),
        Id("g"), Tok("LeftParen"), Tok("RightParen"), Tok("Semicolon"), Id("o"),
        Tok("Dot"), Id("hi"), Tok("Equal"), Num(5), Tok("Semicolon"), Tok("Print"),
        Id("o"), Tok("Dot"), Id("hi"), Tok("Semicolon"), Eof>>]

\* print 0; print 1; ... : ManyConstants statements, each with a constant of its own.
ManyConstants == 258

ProgConstants ==
    [kind |-> "source", fill |-> 0, tokens |->
      [k \in 1..(3 * ManyConstants) |->
          CASE k % 3 = 1 -> Tok("Print")
            [] k % 3 = 2 -> Num((k - 2) \div 3)
            [] OTHER -> Tok("Semicolon")] \o <<Eof>>]

\* print 0; ... print 0; if (false) print 1; : LongChunk statements of three bytes
\* each, then an `if` whose jumps are emitted beyond byte 255 of the chunk.
LongChunk == 86

ProgLongJump ==
    [kind |-> "source", fill |-> 0, tokens |->
      [k \in 1..(3 * LongChunk) |->
          CASE k % 3 = 1 -> Tok("Print")
            [] k % 3 = 2 -> Num(0)
            [] OTHER -> Tok("Semicolon")]
      \o <<Tok("If"), Tok("LeftParen"), Tok("False"), Tok("RightParen"), Tok("Print"),
           Num(1), Tok("Semicolon"), Eof>>]

\* var 1 = 2; print ; print 3 4 print 5;
ProgErrors ==
    [kind |-> "source", fill |-> 0, tokens |->
      <<Tok("Var"), Num(1), Tok("Equal"), Num(2), Tok("Semicolon"), Tok("Print"),
        Tok("Semicolon"), Tok("Print"), Num(3), Num(4), Tok("Print"), Num(5),
        Tok("Semicolon"), Eof>>]

\* fun outer() { var a = 1; var b = 2; fun inner() { a = 3; print a + b; } inner(); }
\* outer();
ProgTwoUpvalues ==
    [kind |-> "source", fill |-> 0, tokens |->
      <<Tok("Fun"), Id("outer"), Tok("LeftParen"), Tok("RightParen"), Tok("LeftBrace"),
        Tok("Var"), Id("a"), Tok("Equal"), Num(1), Tok("Semicolon"), Tok("Var"), Id("b"),
        Tok("Equal"), Num(2), Tok("Semicolon"), Tok("Fun"), Id("inner"), Tok("LeftParen"),
        Tok("RightParen"), Tok("LeftBrace"), Id("a"), Tok("Equal"), Num(3),
        Tok("Semicolon"), Tok("Print"), Id("a"), Tok("Plus"), Id("b"), Tok("Semicolon"),
        Tok("RightBrace"), Id("inner"), Tok("LeftParen"), Tok("RightParen"),
        Tok("Semicolon"), Tok("RightBrace"), Id("outer"), Tok("LeftParen"),
        Tok("RightParen"), Tok("Semicolon"), Eof>>]

\* { fun f() { } } fun g() { } var i = 0; while (i < 453) i = i + 1; print i; print g;
\* print "x" + "y";
\* (with six string literals fewer in the unreached declarations)
ProgCollectClosures ==
    [kind |-> "source", fill |-> FillStrings - 6, tokens |->
      <<Tok("LeftBrace"), Tok("Fun"), Id("f"), Tok("LeftParen"), Tok("RightParen"),
        Tok("LeftBrace"), Tok("RightBrace"), Tok("RightBrace"), Tok("Fun"), Id("g"),
        Tok("LeftParen"), Tok("RightParen"), Tok("LeftBrace"), Tok("RightBrace"),
        Tok("Var"), Id("i"), Tok("Equal"), Num(0), Tok("Semicolon"), Tok("While"),
        Tok("LeftParen"), Id("i"), Tok("Less"), Num(453), Tok("RightParen"), Id("i"),
        Tok("Equal"), Id("i"), Tok("Plus"), Num(1), Tok("Semicolon"), Tok("Print"), Id("i"),
        Tok("Semicolon"), Tok("Print"), Id("g"), Tok("Semicolon"), Tok("Print"),
        Str("x"), Tok("Plus"), Str("y"), Tok("Semicolon"), Eof>>]

\* print 0; print 1; ... as ProgConstants, then the last constant once more.
ProgConstantAgain ==
    [kind |-> "source", fill |-> 0, tokens |->
      SubSeq(ProgConstants.tokens, 1, 3 * ManyConstants)
        \o <<Tok("Print"), Num(ManyConstants - 1), Tok("Semicolon"), Eof>>]

\* print str(1, "a"); print str("a", "b");
ProgNativeArgs ==
    [kind |-> "source", fill |-> 0, tokens |->
      <<Tok("Print"), Id("str"), Tok("LeftParen"), Num(1), Tok("Comma"), Str("a"),
        Tok("RightParen"), Tok("Semicolon"),
        Tok("Print"), Id("str"), Tok("LeftParen"), Str("a"), Tok("Comma"), Str("b"),
        Tok("RightParen"), Tok("Semicolon"), Eof>>]

\* if (nil) print 1;
ProgIfNil ==
    [kind |-> "source", fill |-> 0, tokens |->
      <<Tok("If"), Tok("LeftParen"), Tok("Nil"), Tok("RightParen"), Tok("Print"), Num(1),
        Tok("Semicolon"), Eof>>]

\* fun main() { return; }
ProgFunMain ==
    [kind |-> "source", fill |-> 0, tokens |->
      <<Tok("Fun"), Id("main"), Tok("LeftParen"), Tok("RightParen"), Tok("LeftBrace"),
        Tok("Return"), Tok("Semicolon"), Tok("RightBrace"), Eof>>]

\* print 1 + nil;
ProgTypeMismatch ==
    [kind |-> "source", fill |-> 0, tokens |->
      <<Tok("Print"), Num(1), Tok("Plus"), Tok("Nil"), Tok("Semicolon"), Eof>>]

\* print -"a";
ProgNegateString ==
    [kind |-> "source", fill |-> 0, tokens |->
      <<Tok("Print"), Tok("Minus"), Str("a"), Tok("Semicolon"), Eof>>]

\* print !1;
ProgNotNumber ==
    [kind |-> "source", fill |-> 0, tokens |->
      <<Tok("Print"), Tok("Bang"), Num(1), Tok("Semicolon"), Eof>>]

\* print 1 < "a";
ProgLessString ==
    [kind |-> "source", fill |-> 0, tokens |->
      <<Tok("Print"), Num(1), Tok("Less"), Str("a"), Tok("Semicolon"), Eof>>]

\* print 2 * nil;
ProgMultiplyNil ==
    [kind |-> "source", fill |-> 0, tokens |->
      <<Tok("Print"), Num(2), Tok("Star"), Tok("Nil"), Tok("Semicolon"), Eof>>]

\* var a = 1; a();
ProgNonCallable ==
    [kind |-> "source", fill |-> 0, tokens |->
      <<Tok("Var"), Id("a"), Tok("Equal"), Num(1), Tok("Semicolon"), Id("a"), Tok("LeftParen"),
        Tok("RightParen"), Tok("Semicolon"), Eof>>]

\* class A { } A(1);
ProgClassArgs ==
    [kind |-> "source", fill |-> 0, tokens |->
      <<Tok("Class"), Id("A"), Tok("LeftBrace"), Tok("RightBrace"), Id("A"), Tok("LeftParen"),
        Num(1), Tok("RightParen"), Tok("Semicolon"), Eof>>]

\* class A { init(x) { this.x = x; } get() { return this.x; } } var o = A(1); print
\* o.x; var m = o.get; print m(); o.y = 2; print o.y; print o.z;
ProgClass ==
    [kind |-> "source", fill |-> 0, tokens |->
      <<Tok("Class"), Id("A"), Tok("LeftBrace"), Id("init"), Tok("LeftParen"), Id("x"),
        Tok("RightParen"), Tok("LeftBrace"), This, Tok("Dot"), Id("x"), Tok("Equal"), Id("x"),
        Tok("Semicolon"), Tok("RightBrace"), Id("get"), Tok("LeftParen"), Tok("RightParen"),
        Tok("LeftBrace"), Tok("Return"), This, Tok("Dot"), Id("x"), Tok("Semicolon"),
        Tok("RightBrace"), Tok("RightBrace"), Tok("Var"), Id("o"), Tok("Equal"), Id("A"),
        Tok("LeftParen"), Num(1), Tok("RightParen"), Tok("Semicolon"), Tok("Print"), Id("o"),
        Tok("Dot"), Id("x"), Tok("Semicolon"), Tok("Var"), Id("m"), Tok("Equal"), Id("o"),
        Tok("Dot"), Id("get"), Tok("Semicolon"), Tok("Print"), Id("m"), Tok("LeftParen"),
        Tok("RightParen"), Tok("Semicolon"), Id("o"), Tok("Dot"), Id("y"), Tok("Equal"), Num(2),
        Tok("Semicolon"), Tok("Print"), Id("o"), Tok("Dot"), Id("y"), Tok("Semicolon"),
        Tok("Print"), Id("o"), Tok("Dot"), Id("z"), Tok("Semicolon"), Eof>>]

\* class A { hi(n) { return n + 1; } } var o = A(); print o.hi(2); o.g = o.hi;
\* print o.g(4); print o.z();
ProgInvoke ==
    [kind |-> "source", fill |-> 0, tokens |->
      <<Tok("Class"), Id("A"), Tok("LeftBrace"), Id("hi"), Tok("LeftParen"), Id("n"),
        Tok("RightParen"), Tok("LeftBrace"), Tok("Return"), Id("n"), Tok("Plus"), Num(1),
        Tok("Semicolon"), Tok("RightBrace"), Tok("RightBrace"), Tok("Var"), Id("o"),
        Tok("Equal"), Id("A"), Tok("LeftParen"), Tok("RightParen"), Tok("Semicolon"),
        Tok("Print"), Id("o"), Tok("Dot"), Id("hi"), Tok("LeftParen"), Num(2),
        Tok("RightParen"), Tok("Semicolon"), Id("o"), Tok("Dot"), Id("g"), Tok("Equal"),
        Id("o"), Tok("Dot"), Id("hi"), Tok("Semicolon"), Tok("Print"), Id("o"), Tok("Dot"),
        Id("g"), Tok("LeftParen"), Num(4), Tok("RightParen"), Tok("Semicolon"), Tok("Print"),
        Id("o"), Tok("Dot"), Id("z"), Tok("LeftParen"), Tok("RightParen"), Tok("Semicolon"),
        Eof>>]

\* class A { init(x) { this.v = x; } } class B { init() { this.w = 7; return; } }
\* var a = A(5); print a.v; var b = B(); print b.w;
ProgInit ==
    [kind |-> "source", fill |-> 0, tokens |->
      <<Tok("Class"), Id("A"), Tok("LeftBrace"), Id("init"), Tok("LeftParen"), Id("x"),
        Tok("RightParen"), Tok("LeftBrace"), This, Tok("Dot"), Id("v"), Tok("Equal"), Id("x"),
        Tok("Semicolon"), Tok("RightBrace"), Tok("RightBrace"), Tok("Class"), Id("B"),
        Tok("LeftBrace"), Id("init"), Tok("LeftParen"), Tok("RightParen"), Tok("LeftBrace"),
        This, Tok("Dot"), Id("w"), Tok("Equal"), Num(7), Tok("Semicolon"), Tok("Return"),
        Tok("Semicolon"), Tok("RightBrace"), Tok("RightBrace"), Tok("Var"), Id("a"),
        Tok("Equal"), Id("A"), Tok("LeftParen"), Num(5), Tok("RightParen"), Tok("Semicolon"),
        Tok("Print"), Id("a"), Tok("Dot"), Id("v"), Tok("Semicolon"), Tok("Var"), Id("b"),
        Tok("Equal"), Id("B"), Tok("LeftParen"), Tok("RightParen"), Tok("Semicolon"),
        Tok("Print"), Id("b"), Tok("Dot"), Id("w"), Tok("Semicolon"), Eof>>]

\* class A { init() { return 1; print 2; } } print 3;
ProgInitValue ==
    [kind |-> "source", fill |-> 0, tokens |->
      <<Tok("Class"), Id("A"), Tok("LeftBrace"), Id("init"), Tok("LeftParen"),
        Tok("RightParen"), Tok("LeftBrace"), Tok("Return"), Num(1), Tok("Semicolon"),
        Tok("Print"), Num(2), Tok("Semicolon"), Tok("RightBrace"), Tok("RightBrace"),
        Tok("Print"), Num(3), Tok("Semicolon"), Eof>>]

\* class A { init() { return 1; } } print 2;
\* synchronize skips the `}` that follows the statement in error, and block
\* does not end at the end of the file.
ProgInitValueLast ==
    [kind |-> "source", fill |-> 0, tokens |->
      <<Tok("Class"), Id("A"), Tok("LeftBrace"), Id("init"), Tok("LeftParen"),
        Tok("RightParen"), Tok("LeftBrace"), Tok("Return"), Num(1), Tok("Semicolon"),
        Tok("RightBrace"), Tok("RightBrace"), Tok("Print"), Num(2), Tok("Semicolon"), Eof>>]

\* this;
ProgThisTop ==
    [kind |-> "source", fill |-> 0, tokens |->
      <<This, Tok("Semicolon"), Eof>>]

\* class A { get() { return this; } } print this;
ProgThisAfterClass ==
    [kind |-> "source", fill |-> 0, tokens |->
      <<Tok("Class"), Id("A"), Tok("LeftBrace"), Id("get"), Tok("LeftParen"),
        Tok("RightParen"), Tok("LeftBrace"), Tok("Return"), This, Tok("Semicolon"),
        Tok("RightBrace"), Tok("RightBrace"), Tok("Print"), This, Tok("Semicolon"), Eof>>]

\* fun f() { print this; }
ProgThisFun ==
    [kind |-> "source", fill |-> 0, tokens |->
      <<Tok("Fun"), Id("f"), Tok("LeftParen"), Tok("RightParen"), Tok("LeftBrace"),
        Tok("Print"), This, Tok("Semicolon"), Tok("RightBrace"), Eof>>]

\* var a = 1; print a.b;
ProgNotInstance ==
    [kind |-> "source", fill |-> 0, tokens |->
      <<Tok("Var"), Id("a"), Tok("Equal"), Num(1), Tok("Semicolon"), Tok("Print"), Id("a"),
        Tok("Dot"), Id("b"), Tok("Semicolon"), Eof>>]

\* var a = 1; a.b = 2;
ProgSetNotInstance ==
    [kind |-> "source", fill |-> 0, tokens |->
      <<Tok("Var"), Id("a"), Tok("Equal"), Num(1), Tok("Semicolon"), Id("a"), Tok("Dot"),
        Id("b"), Tok("Equal"), Num(2), Tok("Semicolon"), Eof>>]

\* 1 = 2;
ProgInvalidAssign ==
    [kind |-> "source", fill |-> 0, tokens |->
      <<Num(1), Tok("Equal"), Num(2), Tok("Semicolon"), Eof>>]

\* var a; var b; var c; a + b = c;
ProgInvalidAssignSum ==
    [kind |-> "source", fill |-> 0, tokens |->
      <<Tok("Var"), Id("a"), Tok("Semicolon"), Tok("Var"), Id("b"), Tok("Semicolon"),
        Tok("Var"), Id("c"), Tok("Semicolon"), Id("a"), Tok("Plus"), Id("b"), Tok("Equal"),
        Id("c"), Tok("Semicolon"), Eof>>]

\* var = 1; print 2;
ProgNoName ==
    [kind |-> "source", fill |-> 0, tokens |->
      <<Tok("Var"), Tok("Equal"), Num(1), Tok("Semicolon"), Tok("Print"), Num(2),
        Tok("Semicolon"), Eof>>]

\* print 1 print 2;
ProgNoSemicolon ==
    [kind |-> "source", fill |-> 0, tokens |->
      <<Tok("Print"), Num(1), Tok("Print"), Num(2), Tok("Semicolon"), Eof>>]

\* return 1;
ProgReturnMain ==
    [kind |-> "source", fill |-> 0, tokens |->
      <<Tok("Return"), Num(1), Tok("Semicolon"), Eof>>]

ProgEmpty ==
    [kind |-> "source", fill |-> 0, tokens |->
      <<Eof>>]

\* class A { } var a = A(); a.b = A(); a.b.c = "x" + "y"; var i = 0; while (i < 460) i
\* = i + 1; print a.b.c;
ProgCollect ==
    [kind |-> "source", fill |-> FillStrings, tokens |->
      <<Tok("Class"), Id("A"), Tok("LeftBrace"), Tok("RightBrace"), Tok("Var"), Id("a"),
        Tok("Equal"), Id("A"), Tok("LeftParen"), Tok("RightParen"), Tok("Semicolon"), Id("a"),
        Tok("Dot"), Id("b"), Tok("Equal"), Id("A"), Tok("LeftParen"), Tok("RightParen"),
        Tok("Semicolon"), Id("a"), Tok("Dot"), Id("b"), Tok("Dot"), Id("c"), Tok("Equal"),
        Str("x"), Tok("Plus"), Str("y"), Tok("Semicolon"), Tok("Var"), Id("i"), Tok("Equal"),
        Num(0), Tok("Semicolon"), Tok("While"), Tok("LeftParen"), Id("i"), Tok("Less"),
        Num(460), Tok("RightParen"), Id("i"), Tok("Equal"), Id("i"), Tok("Plus"), Num(1),
        Tok("Semicolon"), Tok("Print"), Id("a"), Tok("Dot"), Id("b"), Tok("Dot"), Id("c"),
        Tok("Semicolon"), Eof>>]

\* var a = 1;
LineVarA ==
    [kind |-> "source", fill |-> 0, tokens |->
      <<Tok("Var"), Id("a"), Tok("Equal"), Num(1), Tok("Semicolon"), Eof>>]

\* print a;
LinePrintA ==
    [kind |-> "source", fill |-> 0, tokens |->
      <<Tok("Print"), Id("a"), Tok("Semicolon"), Eof>>]

\* print x;
LinePrintX ==
    [kind |-> "source", fill |-> 0, tokens |->
      <<Tok("Print"), Id("x"), Tok("Semicolon"), Eof>>]

\* var s = "hi";
LineVarS ==
    [kind |-> "source", fill |-> 0, tokens |->
      <<Tok("Var"), Id("s"), Tok("Equal"), Str("hi"), Tok("Semicolon"), Eof>>]

\* var = 1;
LineNoName ==
    [kind |-> "source", fill |-> 0, tokens |->
      <<Tok("Var"), Tok("Equal"), Num(1), Tok("Semicolon"), Eof>>]

EmptyLine == [kind |-> "empty", fill |-> 0, tokens |-> <<Eof>>]
ExitLine == [kind |-> "exit", fill |-> 0, tokens |-> <<Id("exit"), Eof>>]

Files ==
    {ProgArith, ProgSetUpvalue, ProgClosed, ProgBlock, ProgArity, ProgArityInit,
     ProgArityMethod, ProgRecursion, ProgUndefinedVariable, ProgUndefinedAssign,
     ProgTypeMismatch, ProgNegateString, ProgNotNumber, ProgLessString, ProgMultiplyNil,
     ProgNonCallable, ProgClassArgs, ProgClass, ProgNotInstance, ProgSetNotInstance,
     ProgInvalidAssign, ProgInvalidAssignSum, ProgNoName, ProgNoSemicolon,
     ProgReturnMain, ProgEmpty, ProgCollect, ProgInvoke,
     ProgInit, ProgInitValue, ProgInitValueLast, ProgThisTop, ProgThisAfterClass,
     ProgThisFun, ProgSetGlobal, ProgEqual, ProgShadow, ProgConstants,
     ProgLongJump, ProgErrors, ProgTwoUpvalues, ProgCollectClosures, ProgConstantAgain, ProgNativeArgs, ProgIfNil, ProgFunMain}

Sessions ==
    {<<LineVarA, LinePrintA, ExitLine>>,
     <<EmptyLine, LinePrintX, LinePrintA, ExitLine>>,
     <<LineNoName, EmptyLine, LineVarA, ExitLine>>,
     <<LineNoName, LineNoName, ExitLine>>,
     <<EmptyLine, ExitLine>>,
     <<LineVarS, ExitLine>>}
(***************************************************************************)
(* vm.rs VM::new, VM::init, VM::execute; main.rs run_file, run_prompt, run  *)
(***************************************************************************)
\* hist, the history of the run:
\*   error, out, file   the last runtime-error message, what print wrote, and the
\*                      file a native function wrote;
\*   gc                 the number of collections that started;
\*   home, spec_open    per upvalue cell, the stack slot of the local it captured,
\*                      and the cells whose local is still in scope;
\*   set, written       the last SetUpvalue, and per cell the last value assigned;
\*   at_return          per cell, the value of the slot when its function returned;
\*   read               the last GetUpvalue: the cell and the value it pushed;
\*   arity_mismatch     a call with arg_count different from the arity happened;
\*   push_at            the index of a push outside the Vec of the stack;
\*   getprop            which way the last GetProperty went;
\*   abort_at           where the process panicked: "compile" or "execute";
\*   executed, lines    execute was called; the REPL lines that have finished;
\*   op                 the opcode of the last turn of the run loop;
\*   invoke             the method call that the last Invoke made;
\*   returned           the last Return: the slot of the frame, the value, the depth,
\*                      and the instance if the frame ran an initializer;
\*   construct          per depth, the instance whose initializer runs there;
\*   swept              the last collection: the marked set it swept with, and the
\*                      strings and the numbers of objects the heap had before;
\*   compile            the outcome of the last compile.
HistInit ==
    [error |-> "", file |-> "", out |-> <<>>, gc |-> 0, written |-> EmptyMap,
     home |-> <<>>, spec_open |-> {}, at_return |-> EmptyMap,
     read |-> [cell |-> None, value |-> Nil],
     set |-> [cell |-> None, value |-> Nil, open |-> FALSE],
     arity_mismatch |-> FALSE, push_at |-> NoLocation, abort_at |-> "", getprop |-> "",
     executed |-> FALSE, lines |-> 0, op |-> NoIndex, invoke |-> NoInvoke,
     returned |-> [slot |-> NoLocation, value |-> Nil, depth |-> 0, instance |-> NoIndex],
     native |-> [calls |-> 0, written |-> <<>>, received |-> <<>>, top |-> 0],
     construct |-> EmptyMap,
     swept |-> [marked |-> {}, strings |-> {}, closures |-> 0, functions |-> 0,
                classes |-> 0, instances |-> 0, bytes_allocated |-> 0, next_gc |-> 0],
     compile |-> [status |-> "none", errors |-> <<>>, unconsumed_equal |-> FALSE,
                  return_main |-> FALSE, return_init_value |-> FALSE,
                  this_outside |-> FALSE, scopes |-> {}]]

VMNew(b) ==
    [build |-> b, ip |-> 0, stack |-> [k \in 1..STACK_SIZE |-> Nil], stack_top |-> 0,
     callstack |-> <<>>, globals |-> EmptyMap, heap |-> HeapNew, curr_func_idx |-> 0,
     open_upvalues |-> None, upvalues |-> <<>>, init_string_hash |-> 0,
     hist |-> HistInit, st |-> "run", ret |-> 0]

define_native(m, name) ==
    [m EXCEPT !.heap = alloc_nativefn(alloc_string(@, name), name),
              !.globals = MapInsert(@, hash_string(name),
                                    NativeFnIndex(Len(m.heap.native_fns)))]

init(m) ==
    LET natives == define_native(define_native(define_native(define_native(
                       m, "clock"), "writeFile"), "appendFile"), "str")
    IN  [natives EXCEPT !.heap = alloc_string(@, "init"),
                        !.init_string_hash = hash_string("init")]

execute_closure(closure_idx) ==
    load_frame(vm_call(push(fpop(closure_idx), ClosureIndex(closure_idx.ret)),
                       closure_idx.ret, 0))

execute_function(pushed, func_main_idx) ==
    IF pushed.st # "run" THEN pushed
    ELSE IF ~InRange(pushed.heap.functions, func_main_idx) THEN VMPanic(pushed)
    ELSE execute_closure(new_closure(pushed, func_main_idx,
                                     At(pushed.heap.functions, func_main_idx).upvalue_count))

\* execute, and the start of run() up to its loop.
execute(m) == execute_function(push(m, FunctionIndex(0)), 0)

\* No Parser: before and after the compilation.
ParserIdle == ParserNew(HeapNew, <<>>)

\* The heap goes back to the VM; the history keeps how the compilation went.
compiled(m, p) ==
    [m EXCEPT !.heap = p.heap,
              !.hist.compile = [status |-> p.status, errors |-> p.errors,
                                unconsumed_equal |-> p.unconsumed_equal,
                                return_main |-> p.return_main,
                                return_init_value |-> p.return_init_value,
                                this_outside |-> p.this_outside,
                                scopes |-> p.scopes],
              !.hist.abort_at = IF p.status = "panic" THEN "compile" ELSE @]

\* run_file with the arms of its match on the result exchanged.
exit_code_of_exchanged(run_result) == IF run_result = "RuntimeError" THEN 0 ELSE 70

\* The exit code of run_file for the result of execute.
exit_code_of(run_result) == IF run_result = "RuntimeError" THEN 70 ELSE 0

SetVM(m) ==
    /\ ip' = m.ip
    /\ stack' = m.stack
    /\ stack_top' = m.stack_top
    /\ callstack' = m.callstack
    /\ globals' = m.globals
    /\ heap' = m.heap
    /\ curr_func_idx' = m.curr_func_idx
    /\ open_upvalues' = m.open_upvalues
    /\ upvalues' = m.upvalues
    /\ init_string_hash' = m.init_string_hash
    /\ hist' = m.hist

VMVars ==
    <<ip, stack, stack_top, callstack, globals, heap, curr_func_idx, open_upvalues,
      upvalues, init_string_hash, hist>>

\* run_file and run: Scanner, Parser::new on the heap swapped out of the VM, and
\* parser.compile() up to its loop.
CompileStart ==
    /\ pc = IF mode = "batch" THEN "start" ELSE "prompt"
    /\ mode = "repl" => input # <<>> /\ Head(input).kind = "source"
    /\ \E source \in {IF mode = "batch" THEN input ELSE Head(input)} :
           parser' = compile(ParserNew(alloc_anonymous_strings(heap, source.fill),
                                       source.tokens))
    /\ heap' = HeapNew
    /\ pc' = "compile"
    /\ UNCHANGED <<build, mode, input, had_error, exit_code, result, ip_counter, ip, stack,
                   stack_top, callstack, globals, curr_func_idx, open_upvalues, upvalues,
                   init_string_hash, hist>>

\* parser.compile(): the next call of the frame kinds in `frames`.
Parsing(frames) ==
    /\ pc = "compile"
    /\ parser.status = "ok"
    /\ parser.todo # <<>>
    /\ Head(parser.todo).k \in frames
    /\ UNCHANGED <<build, mode, pc, input, had_error, exit_code, result, ip_counter>>
    /\ UNCHANGED VMVars

ParseDeclaration ==
    /\ Parsing(DeclarationFrames)
    /\ parser' = declaration_frame([parser EXCEPT !.todo = Tail(@)], Head(parser.todo))

ParseStatement ==
    /\ Parsing(StatementFrames)
    /\ parser' = statement_frame([parser EXCEPT !.todo = Tail(@)], Head(parser.todo))

ParseExpression ==
    /\ Parsing(ExpressionFrames)
    /\ parser' = expression_frame([parser EXCEPT !.todo = Tail(@)], Head(parser.todo))

ParseEmit ==
    /\ Parsing(EmitFrames)
    /\ parser' = emit_frame([parser EXCEPT !.todo = Tail(@)], Head(parser.todo))

\* run_file and run: parser.compile() returned, or the process stopped in it;
\* the heap is swapped back into the VM.
CompileEnd ==
    /\ pc = "compile"
    /\ parser.status # "ok" \/ parser.todo = <<>>
    /\ SetVM(compiled(VMState, parser))
    /\ had_error' = parser.had_error
    /\ pc' = CASE parser.status = "panic" -> "aborted"
               [] parser.status = "hang" -> "hang"
               [] OTHER -> "compiled"
    /\ parser' = ParserIdle
    /\ UNCHANGED <<build, mode, input, exit_code, result, ip_counter>>

\* run_file: `if parser.had_error { exit(50); }`.
RunFileBail ==
    /\ mode = "batch"
    /\ pc = "compiled"
    /\ had_error
    /\ pc' = "exited"
    /\ exit_code' = 50
    /\ UNCHANGED <<build, mode, input, parser, had_error, result, ip_counter>>
    /\ UNCHANGED VMVars

\* vm.execute() up to the loop of run(), in run_file and in run.
Execute ==
    /\ pc = "compiled"
    /\ ~had_error
    /\ \E m \in {execute([VMState EXCEPT !.hist.executed = TRUE])} :
           /\ SetVM(IF m.st = "panic" THEN [m EXCEPT !.hist.abort_at = "execute"] ELSE m)
           /\ pc' = IF m.st = "panic" THEN "aborted" ELSE "run"
    /\ result' = "running"
    /\ ip_counter' = 0
    /\ UNCHANGED <<build, mode, input, parser, had_error, exit_code>>

\* run_file: the match on the result of execute.
RunFileExit ==
    /\ mode = "batch"
    /\ pc = "returned"
    /\ pc' = "exited"
    /\ exit_code' = exit_code_of(result)
    /\ UNCHANGED <<build, mode, input, parser, had_error, result, ip_counter>>
    /\ UNCHANGED VMVars

\* run_prompt: an empty line.
PromptEmpty ==
    /\ mode = "repl"
    /\ pc = "prompt"
    /\ input # <<>>
    /\ Head(input).kind = "empty"
    /\ input' = Tail(input)
    /\ UNCHANGED <<build, mode, pc, parser, had_error, exit_code, result, ip_counter>>
    /\ UNCHANGED VMVars

\* run_prompt: the line `exit` leaves the loop and main returns.
PromptExit ==
    /\ mode = "repl"
    /\ pc = "prompt"
    /\ input # <<>>
    /\ Head(input).kind = "exit"
    /\ pc' = "exited"
    /\ exit_code' = 0
    /\ UNCHANGED <<build, mode, input, parser, had_error, result, ip_counter>>
    /\ UNCHANGED VMVars

\* run_prompt: vm.reset_stack() after run() returned, then the next prompt.
PromptReset ==
    /\ mode = "repl"
    /\ pc = "returned" \/ (pc = "compiled" /\ had_error)
    /\ SetVM([reset_stack(VMState) EXCEPT !.hist.lines = @ + 1])
    /\ pc' = "prompt"
    /\ input' = Tail(input)
    /\ UNCHANGED <<build, mode, parser, had_error, exit_code, result, ip_counter>>

Init ==
    /\ build \in {"debug", "release"}
    /\ mode \in {"batch", "repl"}
    /\ input \in IF mode = "batch" THEN Files ELSE Sessions
    /\ pc = IF mode = "batch" THEN "start" ELSE "prompt"
    /\ parser = ParserIdle
    /\ had_error = FALSE
    /\ exit_code = NoIndex
    /\ result = "none"
    /\ ip_counter = 0
    /\ LET m == init(VMNew(build))
       IN  /\ ip = m.ip
           /\ stack = m.stack
           /\ stack_top = m.stack_top
           /\ callstack = m.callstack
           /\ globals = m.globals
           /\ heap = m.heap
           /\ curr_func_idx = m.curr_func_idx
           /\ open_upvalues = m.open_upvalues
           /\ upvalues = m.upvalues
           /\ init_string_hash = m.init_string_hash
           /\ hist = m.hist

Next ==
    \/ CompileStart
    \/ ParseDeclaration
    \/ ParseStatement
    \/ ParseExpression
    \/ ParseEmit
    \/ CompileEnd
    \/ RunFileBail
    \/ Execute
    \/ RunFileExit
    \/ PromptEmpty
    \/ PromptExit
    \/ PromptReset
    \/ RunConstant
    \/ RunNil
    \/ RunTrue
    \/ RunFalse
    \/ RunPop
    \/ RunDefineGlobal
    \/ RunGetGlobal
    \/ RunSetGlobal
    \/ RunGetLocal
    \/ RunSetLocal
    \/ RunGetUpvalue
    \/ RunSetUpvalue
    \/ RunGetProperty
    \/ RunSetProperty
    \/ RunEqual
    \/ RunAdd
    \/ RunMultiply
    \/ RunDivide
    \/ RunSubtract
    \/ RunLess
    \/ RunGreater
    \/ RunNegate
    \/ RunNot
    \/ RunJump
    \/ RunJumpIfFalse
    \/ RunLoop
    \/ RunCall
    \/ RunPrint
    \/ RunClosure
    \/ RunCloseValue
    \/ RunClass
    \/ RunMethod
    \/ RunInvoke
    \/ RunReturn

Spec == Init /\ [][Next]_vars

(***************************************************************************)
(* The properties of the specification, as formulas on the state.  hist    *)
(* is the record of what the run did: hist.op is the opcode of the last    *)
(* turn of the loop.                                                       *)
(***************************************************************************)
\* The values held below the top of the stack, in the globals (values and
\* name keys) and in the call frames.
Held ==
    {stack[k] : k \in 1..Min(Max(stack_top, 0), Len(stack))}
        \cup Range(globals)
        \cup {StringHash(h) : h \in DOMAIN globals}
        \cup {ClosureIndex(callstack[k].closure_idx) : k \in 1..Len(callstack)}

\* A handle resolves: the heap has an object for it.
Resolves(v) ==
    CASE v.t = "StringHash" -> v.v \in heap.strings
      [] v.t = "ClosureIndex" -> InRange(heap.closures, v.v)
      [] v.t = "FunctionIndex" -> InRange(heap.functions, v.v)
      [] v.t = "InstanceIndex" -> InRange(heap.instances, v.v)
      [] v.t = "ClassIndex" -> InRange(heap.classes, v.v)
      [] OTHER -> TRUE

\* The closed upvalues of a closure, the fields of an instance, the methods
\* of a class.
Refers(v) ==
    CASE v.t = "ClosureIndex" /\ Resolves(v) ->
             {upvalues[c].closed : c \in {d \in Range(At(heap.closures, v.v).upvalues) :
                                             d # None /\ upvalues[d].is_closed}}
      [] v.t = "InstanceIndex" /\ Resolves(v) ->
             Range(At(heap.instances, v.v).fields)
                 \cup {StringHash(h) : h \in DOMAIN At(heap.instances, v.v).fields}
      [] v.t = "ClassIndex" /\ Resolves(v) ->
             Range(At(heap.classes, v.v).methods)
                 \cup {StringHash(h) : h \in DOMAIN At(heap.classes, v.v).methods}
      [] OTHER -> {}

RECURSIVE Reachable(_)
Reachable(values) ==
    IF UNION {Refers(v) : v \in values} \subseteq values THEN values
    ELSE Reachable(values \cup UNION {Refers(v) : v \in values})

\* C1: after a garbage collection every handle that is held on the stack,
\* in a call frame or in the globals, or is reachable from those through
\* closed upvalues, fields and methods, resolves to an object of the heap.
C1_HandlesResolve == hist.gc > 0 => \A v \in Reachable(Held) : Resolves(v)

\* C2: a GetUpvalue of a cell yields the value that the last SetUpvalue of
\* that cell assigned, as long as the variable was not written since.
C2_SetUpvalueWrites ==
    (pc = "run" /\ hist.op = OpGetUpvalue /\ hist.read.cell \in DOMAIN hist.written)
        => hist.read.value = hist.written[hist.read.cell]

\* C3: a GetUpvalue of a cell whose local was in scope when its function
\* returned yields the value that the stack slot of the local held then.
C3_ClosedAtReturn ==
    (pc = "run" /\ hist.op = OpGetUpvalue /\ hist.read.cell \in DOMAIN hist.at_return)
        => hist.read.value = hist.at_return[hist.read.cell]

\* C4: a call of a closure with an argument count that differs from the
\* arity ends the run with RuntimeError, and no frame of the callee is left.
C4_ArityMismatch == hist.arity_mismatch => result = "RuntimeError" /\ callstack = <<>>

\* C5: a push beyond the 256 slots of the value stack ends the run with
\* RuntimeError.
C5_StackOverflow == hist.push_at = STACK_SIZE => result = "RuntimeError"

\* C6: when a file's run reported a runtime error, it returned RuntimeError
\* with stack top 0, no call frame and no open upvalue.
C6_RuntimeErrorResets ==
    (mode = "batch" /\ hist.error # "")
        => /\ result = "RuntimeError"
           /\ stack_top = 0
           /\ callstack = <<>>
           /\ open_upvalues = None

\* C7: in a REPL session, after a line has finished, the execution of the
\* next line does not abort the VM.
C7_ReplNextLine == (mode = "repl" /\ hist.lines > 0) => hist.abort_at # "execute"

\* C8: in batch mode execute is not called when the compilation set
\* had_error, and the process exits with 50 in that case, and otherwise with
\* 70 after RuntimeError and 0 after Ok.
C8_ExitCode ==
    mode = "batch"
        => /\ had_error => ~hist.executed
           /\ pc = "exited"
                  => /\ had_error => exit_code = 50
                     /\ ~had_error => result \in {"RuntimeError", "Ok"}
                     /\ ~had_error /\ result = "RuntimeError" => exit_code = 70
                     /\ ~had_error /\ result = "Ok" => exit_code = 0

\* A file with a compile error has exited with 50, its VM never executed.
C8_Witness ==
    mode = "batch" /\ pc = "exited" /\ had_error /\ exit_code = 50 /\ ~hist.executed

\* C9: a compilation that met an `=` which no assignment consumed has
\* reported "Invalid assignment target." and has finished with had_error.
C9_InvalidAssignmentTarget ==
    hist.compile.unconsumed_equal
        => /\ hist.compile.status = "ok"
           /\ had_error
           /\ \E k \in DOMAIN hist.compile.errors :
                  hist.compile.errors[k] = "Invalid assignment target."

\* C10: a GetProperty on a value that is not an instance, or of a name that
\* is neither a field nor a method, ends the run with RuntimeError.
C10_GetPropertyError ==
    hist.getprop \in {"not an instance", "undefined"} => result = "RuntimeError"

\* GetProperty on the receiver below the arguments, then Call: the arms of
\* VM::run applied to the bytes of the Invoke instruction, whose operands are
\* the operand of GetProperty followed by the operand of Call.
Lower(m, n) == IF m.st # "run" THEN m ELSE [m EXCEPT !.stack_top = @ - n]
Raise(m, n) == IF m.st # "run" THEN m ELSE [m EXCEPT !.stack_top = @ + n]
GetPropertyThenCall(m, arg_count) ==
    arm_call(Raise(arm_get_property(Lower(m, arg_count)), arg_count))

\* What a program can observe of a turn of the loop: the outcome and, while
\* the VM runs, the stack, the frames, the globals, the instances and the output.
Observable(m) ==
    IF m.st # "run" THEN [st |-> m.st, out |-> m.hist.out]
    ELSE [st |-> m.st, out |-> m.hist.out, stack |-> m.stack, stack_top |-> m.stack_top,
          callstack |-> m.callstack, ip |-> m.ip, curr_func_idx |-> m.curr_func_idx,
          globals |-> m.globals, instances |-> m.heap.instances]

\* The next instruction is Invoke and its receiver is an instance.
InvokeArgCount == read_byte(read_byte(Fetch)).ret
InvokeNext ==
    /\ pc = "run"
    /\ Fetch.st = "run"
    /\ Fetch.ret = OpInvoke
    /\ vm_peek(Fetch, InvokeArgCount).st = "run"
    /\ vm_peek(Fetch, InvokeArgCount).ret.t = "InstanceIndex"

C12_InitReturnsInstance ==
    /\ (pc = "run" /\ Len(callstack) \in DOMAIN hist.construct) =>
           At(stack, last_frame(VMState).slot_offset)
               = InstanceIndex(hist.construct[Len(callstack)])
    /\ (pc = "run" /\ hist.op = OpReturn /\ hist.returned.instance # NoIndex) =>
           /\ hist.returned.value = InstanceIndex(hist.returned.instance)
           /\ At(stack, hist.returned.slot) = InstanceIndex(hist.returned.instance)
           /\ InRange(heap.instances, hist.returned.instance)

\* The initializer of B, which ends with `return;`, has returned the second
\* instance, whose field w it has set to 7, after the one of A returned the first.
C12_Witness ==
    /\ pc = "run"
    /\ hist.op = OpReturn
    /\ hist.returned.instance = 1
    /\ hash_string("w") \in DOMAIN At(heap.instances, 1).fields
    /\ At(heap.instances, 1).fields[hash_string("w")] = Number(7)
    /\ At(heap.instances, 0).fields[hash_string("v")] = Number(5)

\* C13: a return statement in the top-level script, and a `return <expr>;` in a
\* method named init, are compile errors: had_error is set, an error message
\* was printed, and in batch mode the VM is not run.
C13_ReturnErrors ==
    (hist.compile.return_main \/ hist.compile.return_init_value)
        => /\ had_error
           /\ hist.compile.errors # <<>>
           /\ hist.compile.return_main /\ Len(hist.compile.errors) = 1
                  => hist.compile.errors[1] = "Can't return from main."
           /\ hist.compile.return_init_value /\ Len(hist.compile.errors) = 1
                  => hist.compile.errors[1] = "Can't return value from an initializer."
           /\ mode = "batch" => ~hist.executed

\* The file with `return 1;` in init was compiled to its end and exited with 50.
C13_Witness ==
    /\ hist.compile.status = "ok"
    /\ hist.compile.return_init_value
    /\ had_error
    /\ pc = "exited"
    /\ exit_code = 50

\* C14: a `this` in code that is not in the body of a method (the top level, a
\* plain function, the code after a class declaration) is a compile error:
\* had_error is set and a message was printed, the one of `this` if it is the
\* only one.
C14_ThisOutsideMethod ==
    hist.compile.this_outside
        => /\ had_error
           /\ hist.compile.errors # <<>>
           /\ Len(hist.compile.errors) = 1
                  => hist.compile.errors[1] = "Can't use 'this' outside of class"
           /\ mode = "batch" => ~hist.executed

\* A file whose only error is a `this` outside a method, after a class whose
\* method uses `this`, was compiled to its end and exited with 50.
C14_Witness ==
    /\ hist.compile.status = "ok"
    /\ hist.compile.this_outside
    /\ hist.compile.errors = <<"Can't use 'this' outside of class">>
    /\ mode = "batch"
    /\ input = ProgThisAfterClass
    /\ pc = "exited"
    /\ exit_code = 50

(***************************************************************************)
(* Globals: GetGlobal and SetGlobal                                         *)
(***************************************************************************)
\* The next turn of the run loop executes GetGlobal or SetGlobal; GlobalName is
\* the hash of the name its operand refers to.
GlobalNext(opcode) ==
    /\ pc = "run"
    /\ ip_counter < MaxInstructions
    /\ Fetch.st = "run"
    /\ Fetch.ret = opcode
    /\ read_string(Fetch).st = "run"

GlobalName == read_string(Fetch).ret

GlobalUndefined ==
    /\ GlobalNext(OpGetGlobal) \/ GlobalNext(OpSetGlobal)
    /\ GlobalName \notin DOMAIN globals

GlobalAssigned ==
    /\ GlobalNext(OpSetGlobal)
    /\ GlobalName \in DOMAIN globals
    /\ stack_top > 0

\* C15: GetGlobal and SetGlobal on a name that is not in the globals map end the
\* run with RuntimeError and leave the globals map as it was (SetGlobal creates
\* nothing); SetGlobal on a defined name replaces that name's value by the value
\* on top of the stack, changes no other global, and leaves the value on the stack.
C15_GlobalAccess ==
    [][(GlobalUndefined =>
            /\ pc' = "returned"
            /\ result' = "RuntimeError"
            /\ hist'.error = "Undefined variable"
            /\ globals' = globals)
       /\ (GlobalAssigned =>
            /\ pc' = "run"
            /\ globals' = [globals EXCEPT ![GlobalName] = At(stack, stack_top - 1)]
            /\ stack_top' = stack_top
            /\ At(stack', stack_top' - 1) = At(stack, stack_top - 1))]_vars

\* `var x = 1; print x = 2; print x; y = 3;` printed 2 twice (the assignment left
\* its value on the stack and replaced x), then the assignment to the undefined y
\* ended the run with RuntimeError, and x is still the only global the program made.
C15_Witness ==
    /\ mode = "batch"
    /\ input = ProgSetGlobal
    /\ pc = "returned"
    /\ result = "RuntimeError"
    /\ hist.op = OpSetGlobal
    /\ hist.error = "Undefined variable"
    /\ hist.out = <<Number(2), Number(2)>>
    /\ hash_string("y") \notin DOMAIN globals
    /\ globals[hash_string("x")] = Number(2)

(***************************************************************************)
(* Equal on object handles                                                  *)
(***************************************************************************)
ObjectKinds ==
    {"StringHash", "FunctionIndex", "NativeFnIndex", "ClosureIndex", "ClassIndex",
     "InstanceIndex"}

\* The next turn of the run loop executes Equal on two object handles.
EqualNext ==
    /\ pc = "run"
    /\ ip_counter < MaxInstructions
    /\ Fetch.st = "run"
    /\ Fetch.ret = OpEqual
    /\ stack_top >= 2
    /\ At(stack, stack_top - 1).t \in ObjectKinds
    /\ At(stack, stack_top - 2).t \in ObjectKinds

SameHandle(a, b) == a.t = b.t /\ a.v = b.v

\* C16: Equal on two object handles replaces them by true exactly when they are
\* of the same kind and have the same index (for strings, the same content
\* hash), whatever the kind: string, function, native function, closure,
\* class or instance.
C16_EqualByHandle ==
    [][EqualNext =>
          /\ pc' = "run"
          /\ stack_top' = stack_top - 1
          /\ At(stack', stack_top' - 1) =
                 Bool(SameHandle(At(stack, stack_top - 2), At(stack, stack_top - 1)))]_vars

(***************************************************************************)
(* GetProperty: fields before methods                                       *)
(***************************************************************************)
\* The next turn of the run loop executes GetProperty on an instance of the heap
\* whose class is in the heap; PropertyName is the hash of the name, and
\* PropertyInstance and PropertyMethods are the instance and its class's methods.
GetPropertyNext ==
    /\ pc = "run"
    /\ ip_counter < MaxInstructions
    /\ Fetch.st = "run"
    /\ Fetch.ret = OpGetProperty
    /\ stack_top > 0
    /\ At(stack, stack_top - 1).t = "InstanceIndex"
    /\ InRange(heap.instances, At(stack, stack_top - 1).v)
    /\ InRange(heap.classes, At(heap.instances, At(stack, stack_top - 1).v).class_idx)
    /\ read_string(Fetch).st = "run"

PropertyName == read_string(Fetch).ret
PropertyInstance == At(heap.instances, At(stack, stack_top - 1).v)
PropertyMethods == At(heap.classes, PropertyInstance.class_idx).methods

\* The value on top of the stack after the turn.
TopAfter == At(stack', stack_top' - 1)

\* C17: GetProperty on an instance that has a field of the name replaces the
\* instance by the field's value, whether or not the class has a method of
\* that name; when there is no such field and the class has the method, it
\* replaces the instance by a bound method whose receiver is that instance and
\* whose closure is the class's method of that name.
C17_FieldBeforeMethod ==
    [][GetPropertyNext =>
          /\ PropertyName \in DOMAIN PropertyInstance.fields =>
                /\ pc' = "run"
                /\ stack_top' = stack_top
                /\ TopAfter = PropertyInstance.fields[PropertyName]
          /\ (PropertyName \notin DOMAIN PropertyInstance.fields
               /\ PropertyName \in DOMAIN PropertyMethods) =>
                /\ pc' = "run"
                /\ stack_top' = stack_top
                /\ TopAfter.t = "BoundMethodIndex"
                /\ InRange(heap'.bound_methods, TopAfter.v)
                /\ At(heap'.bound_methods, TopAfter.v).receiver = At(stack, stack_top - 1)
                /\ ClosureIndex(At(heap'.bound_methods, TopAfter.v).closure_idx) =
                       PropertyMethods[PropertyName]]_vars

\* `o.hi` gave the bound method while o had no field hi (calling it printed 1),
\* and after `o.hi = 5` the GetProperty of `print o.hi` has just pushed the field's
\* value 5 although the class still has the method hi.
C17_Witness ==
    /\ mode = "batch"
    /\ input = ProgShadow
    /\ pc = "run"
    /\ hist.op = OpGetProperty
    /\ hist.getprop = "field"
    /\ hist.out = <<Number(1)>>
    /\ stack_top > 0
    /\ At(stack, stack_top - 1) = Number(5)
    /\ hash_string("hi") \in DOMAIN At(heap.instances, 0).fields
    /\ hash_string("hi") \in DOMAIN At(heap.classes, 0).methods
    /\ heap.bound_methods # <<>>

(***************************************************************************)
(* The constant pool of a chunk                                             *)
(***************************************************************************)
PoolSizes == {Len(parser.heap.functions[f].chunk.constants) :
                 f \in DOMAIN parser.heap.functions}

\* C18: while a file or line is compiled, "Too many constants in one chunk" has
\* been reported exactly when some chunk needed more than 256 distinct
\* constants, and every operand byte that make_constant returned without an
\* error is the index at which the pool holds the constant.
C18_ConstantPool ==
    (pc = "compile" /\ parser.status = "ok") =>
        /\ (\E k \in DOMAIN parser.errors :
                parser.errors[k] = "Too many constants in one chunk")
              <=> (\E size \in PoolSizes : size > 256)
        /\ ~parser.operand_differs

(***************************************************************************)
(* Jump, JumpIfFalse and Loop in the compiled chunks                        *)
(***************************************************************************)
\* The number of bytes of the instruction at position i of a chunk: the opcode,
\* its operands and, for Closure, the two bytes of each upvalue of the function.
InstructionLength(chunk, i, functions) ==
    LET opcode == At(chunk.code, i) IN
    CASE opcode \in {OpConstant, OpGetLocal, OpGetGlobal, OpDefineGlobal, OpSetLocal,
                     OpSetGlobal, OpGetUpvalue, OpSetUpvalue, OpCall, OpGetProperty,
                     OpSetProperty, OpClass, OpMethod} -> 2
      [] opcode \in {OpJumpIfFalse, OpJump, OpLoop, OpInvoke} -> 3
      [] opcode = OpClosure ->
            IF /\ InRange(chunk.code, i + 1)
               /\ InRange(chunk.constants, At(chunk.code, i + 1))
               /\ At(chunk.constants, At(chunk.code, i + 1)).t = "FunctionIndex"
               /\ InRange(functions, At(chunk.constants, At(chunk.code, i + 1)).v)
            THEN 2 + 2 * At(functions,
                            At(chunk.constants, At(chunk.code, i + 1)).v).upvalue_count
            ELSE 2
      [] OTHER -> 1

RECURSIVE Boundaries(_, _, _)
Boundaries(chunk, i, functions) ==
    IF i >= Len(chunk.code) THEN {}
    ELSE {i} \cup Boundaries(chunk, i + InstructionLength(chunk, i, functions), functions)

\* The target of the jump instruction at position i: the ip after the operand,
\* plus the operand for Jump and JumpIfFalse, minus the operand for Loop.
JumpTarget(chunk, i) ==
    IF ~InRange(chunk.code, i + 2) THEN NoIndex
    ELSE IF At(chunk.code, i) = OpLoop
    THEN i + 3 - (At(chunk.code, i + 1) * 256 + At(chunk.code, i + 2))
    ELSE i + 3 + (At(chunk.code, i + 1) * 256 + At(chunk.code, i + 2))

JumpsInRange(chunk, functions) ==
    LET boundaries == Boundaries(chunk, 0, functions)
    IN  \A i \in boundaries :
            At(chunk.code, i) \in {OpJump, OpJumpIfFalse, OpLoop}
                => JumpTarget(chunk, i) \in boundaries

CompiledWithoutError ==
    /\ pc = "compile"
    /\ parser.status = "ok"
    /\ parser.todo = <<>>
    /\ ~parser.had_error

\* C19: when a compilation has finished without an error, every operand that
\* emit_jump wrote has been written by patch_jump, and in every chunk the target
\* of every Jump, JumpIfFalse and Loop is the position of an instruction of
\* that chunk.
C19_JumpTargets ==
    CompiledWithoutError =>
        /\ parser.jumps \subseteq parser.patched
        /\ \A f \in DOMAIN parser.heap.functions :
               JumpsInRange(parser.heap.functions[f].chunk, parser.heap.functions)

(***************************************************************************)
(* The sweep of a collection                                                *)
(***************************************************************************)
\* The number of the indices below `size` whose handle of kind `type` is marked.
MarkedCount(marked, type, size) ==
    Cardinality({i \in 0..(size - 1) : [t |-> type, v |-> i] \in marked})

\* C20: a turn of the run loop in which a collection started has returned to
\* the loop, and its sweep has kept in the strings, closures, functions,
\* classes and instances of the heap exactly the entries whose handle is in
\* the marked set.
C20_SweepCompletes ==
    [][hist'.gc = hist.gc + 1 =>
          /\ pc' # "aborted"
          /\ heap'.strings =
                 {h \in hist'.swept.strings : StringHash(h) \in hist'.swept.marked}
          /\ Len(heap'.closures) =
                 MarkedCount(hist'.swept.marked, "ClosureIndex", hist'.swept.closures)
          /\ Len(heap'.functions) =
                 MarkedCount(hist'.swept.marked, "FunctionIndex", hist'.swept.functions)
          /\ Len(heap'.classes) =
                 MarkedCount(hist'.swept.marked, "ClassIndex", hist'.swept.classes)
          /\ Len(heap'.instances) =
                 MarkedCount(hist'.swept.marked, "InstanceIndex", hist'.swept.instances)]_vars

(***************************************************************************)
(* Panic mode of the compiler                                               *)
(***************************************************************************)
SynchronizeStops == {"semicolon", "keyword", "end"}

\* The last event of the compilation that is not a swallowed error.
RECURSIVE LastEvent(_)
LastEvent(events) ==
    IF events = <<>> THEN "none"
    ELSE IF events[Len(events)] # "swallowed" THEN events[Len(events)]
    ELSE LastEvent(SubSeq(events, 1, Len(events) - 1))

\* had_error is set from the first reported error on; no error is reported
\* between a reported error and the next synchronize; panic mode is on
\* exactly from a reported error to the next synchronize.
PanicMode(stops) ==
    /\ parser.had_error <=> (\E k \in DOMAIN parser.events : parser.events[k] = "error")
    /\ parser.had_error => parser.errors # <<>>
    /\ \A i, j \in DOMAIN parser.events :
           (i < j /\ parser.events[i] = "error" /\ parser.events[j] = "error")
               => \E k \in (i + 1)..(j - 1) : parser.events[k] \in SynchronizeStops
    /\ \A k \in DOMAIN parser.events :
           parser.events[k] = "swallowed" => LastEvent(SubSeq(parser.events, 1, k)) = "error"
    /\ parser.status = "ok" => (parser.panic_mode <=> LastEvent(parser.events) = "error")
    /\ \A k \in DOMAIN parser.events :
           parser.events[k] \in SynchronizeStops => parser.events[k] \in stops

\* C21: during a compilation the first error sets had_error, which stays set, and
\* enters panic mode; in panic mode no further error is reported; and panic
\* mode is left only by a synchronize that stops after a `;` or before a
\* keyword that starts a statement.
C21_PanicMode == PanicMode({"semicolon", "keyword"})

\* C21, amended: as C21, and a synchronize may also stop at the end of the
\* tokens, where panic mode is left with no `;` before and no keyword ahead.
C21_PanicModeAmended == PanicMode(SynchronizeStops)

\* `var 1 = 2; print ; print 3 4 print 5;` was compiled to its end: the error at
\* `1` and the one at the `;` after `print` were reported, one error was swallowed
\* after each, the first synchronize stopped after a `;` and the second before
\* the last `print`.
C21_Witness ==
    /\ pc = "compile"
    /\ parser.status = "ok"
    /\ parser.todo = <<>>
    /\ parser.had_error
    /\ ~parser.panic_mode
    /\ parser.errors = <<"Expect a variable name.", "Expect expression">>
    /\ parser.events = <<"error", "swallowed", "semicolon", "error", "swallowed", "keyword">>

(***************************************************************************)
(* The list of open upvalues                                                *)
(***************************************************************************)
\* The cells of the list that starts at `cell`, head first, following next for
\* at most `fuel` links.
RECURSIVE OpenList(_, _)
OpenList(cell, fuel) ==
    IF cell = None \/ fuel = 0 THEN <<>>
    ELSE <<cell>> \o OpenList(upvalues[cell].next, fuel - 1)

OpenCells == OpenList(open_upvalues, Len(upvalues))

IsOpen(cell) == ~upvalues[cell].is_closed /\ upvalues[cell].location # NoLocation

\* C22: at every instruction boundary the list of open upvalues holds only
\* Open cells and their stack locations strictly decrease from the head of the
\* list to its tail, so no two cells of the list have the same location.
C22_OpenListOrdered ==
    pc = "run" =>
        /\ \A k \in DOMAIN OpenCells : IsOpen(OpenCells[k])
        /\ \A k \in 1..(Len(OpenCells) - 1) :
               upvalues[OpenCells[k]].location > upvalues[OpenCells[k + 1]].location

\* The cells that are Open with a location at or above slot b.
OpenFrom(b) == {c \in DOMAIN upvalues : IsOpen(c) /\ upvalues[c].location >= b}

\* C23: right after a Return from a frame with slot offset b, and right after
\* a CloseValue that popped slot b, no upvalue cell is Open with a location
\* greater than or equal to b.
C23_ClosedAboveBoundary ==
    /\ (pc = "run" /\ hist.op = OpReturn) => OpenFrom(hist.returned.slot) = {}
    /\ (pc = "run" /\ hist.op = OpCloseValue) => OpenFrom(stack_top) = {}

\* The next turn of the run loop executes CloseValue with a slot to pop.
CloseValueNext ==
    /\ pc = "run"
    /\ ip_counter < MaxInstructions
    /\ Fetch.st = "run"
    /\ Fetch.ret = OpCloseValue
    /\ stack_top > 0

\* C24: CloseValue pops the slot on top of the stack and closes the upvalue of
\* that slot with the value the slot holds; every cell that is Open with the
\* location of a lower slot is still Open with that location afterwards.
C24_CloseValueTopOnly ==
    [][CloseValueNext =>
          /\ pc' = "run"
          /\ stack_top' = stack_top - 1
          /\ \A c \in DOMAIN upvalues :
                 (IsOpen(c) /\ upvalues[c].location = stack_top - 1)
                     => /\ upvalues'[c].is_closed
                        /\ upvalues'[c].closed = At(stack, stack_top - 1)
          /\ \A c \in DOMAIN upvalues :
                 (IsOpen(c) /\ upvalues[c].location < stack_top - 1)
                     => /\ ~upvalues'[c].is_closed
                        /\ upvalues'[c].location = upvalues[c].location]_vars

(***************************************************************************)
(* Handles across a collection                                              *)
(***************************************************************************)
\* The closures and the functions that the collection of this step keeps:
\* the indexes below the size of the container that are in the marked set.
SurvivingClosures ==
    {i \in 0..(hist'.swept.closures - 1) : ClosureIndex(i) \in hist'.swept.marked}
SurvivingFunctions ==
    {i \in 0..(hist'.swept.functions - 1) : FunctionIndex(i) \in hist'.swept.marked}

\* C25: across a collection, every closure and every function that is marked
\* is found after the sweep at the index it had before the sweep.
C25_HandlesStable ==
    [][hist'.gc = hist.gc + 1 =>
          /\ \A i \in SurvivingClosures :
                 /\ InRange(heap'.closures, i)
                 /\ InRange(heap.closures, i)
                        => At(heap'.closures, i) = At(heap.closures, i)
          /\ \A i \in SurvivingFunctions :
                 /\ InRange(heap'.functions, i)
                 /\ InRange(heap.functions, i)
                        => At(heap'.functions, i) = At(heap.functions, i)]_vars

\* A collection has swept a heap in which a closure that is not marked (f)
\* sits below a closure that is marked (g), and g is still closure 2.
C25_Witness ==
    /\ mode = "batch"
    /\ input = ProgCollectClosures
    /\ hist.gc = 1
    /\ hist.swept.closures = 3
    /\ ClosureIndex(1) \notin hist.swept.marked
    /\ ClosureIndex(2) \in hist.swept.marked
    /\ InRange(heap.closures, 2)
    /\ At(heap.functions, At(heap.closures, 2).func_idx).name = "g"

(***************************************************************************)
(* The marked set                                                           *)
(***************************************************************************)
\* The roots with everything that is found from them in any number of steps.
RECURSIVE TransitiveMarks(_, _)
TransitiveMarks(m, values) ==
    LET found == UNION {IF trace_in_range(m, v) THEN trace_object(m, v) ELSE {} :
                            v \in values}
    IN  IF found \subseteq values THEN values
        ELSE TransitiveMarks(m, values \cup found)

\* C26: the marked set that a collection hands to the sweep holds the roots
\* and everything that is reachable from them, through the function and the
\* constants of a closure, its closed upvalues, the fields of an instance and
\* the methods of a class, however long the chain.
C26_MarkedIsReachable ==
    [][hist'.gc = hist.gc + 1 =>
          hist'.swept.marked = TransitiveMarks(VMState', mark_roots(VMState'))]_vars

(***************************************************************************)
(* Collections and the strings of Add and of the native functions           *)
(***************************************************************************)
\* The strings that the instruction of this step has added to the heap, as
\* the collection of this step finds them.
AllocatedInStep == hist'.swept.strings \ heap.strings

ReturnNext ==
    /\ pc = "run"
    /\ ip_counter < MaxInstructions
    /\ Fetch.st = "run"
    /\ Fetch.ret = OpReturn
    /\ callstack # <<>>
    /\ stack_top > 0

\* The frame that returns, the frame of its caller and the code of the caller.
ReturningFrame == callstack[Len(callstack)]
CallerFrame == callstack[Len(callstack) - 1]
CallerFunction == At(heap.closures, CallerFrame.closure_idx).func_idx
CallerCode == At(heap.functions, CallerFunction).chunk.code

\* ip is the byte after the operands of a Call or of an Invoke in the code.
AfterCall(code, at) ==
    \/ at >= 2 /\ At(code, at - 2) = OpCall
    \/ at >= 3 /\ At(code, at - 3) = OpInvoke

\* C28: a Return from a frame that is not the outermost one leaves the
\* returned value in the slot at the slot offset of the frame, with the stack
\* top one above it, removes the frame, and continues the caller at the ip it
\* saved for the call, just after the operand of the call, with the function
\* of the caller as the current function; a Return from the outermost frame
\* ends the run with Ok, an empty call stack and stack top 0.
C28_ReturnRestoresCaller ==
    [][ReturnNext =>
          IF Len(callstack) > 1
          THEN /\ pc' = "run"
               /\ stack_top' = ReturningFrame.slot_offset + 1
               /\ At(stack', ReturningFrame.slot_offset) = At(stack, stack_top - 1)
               /\ callstack' = SubSeq(callstack, 1, Len(callstack) - 1)
               /\ ip' = CallerFrame.ip
               /\ AfterCall(CallerCode, ip')
               /\ curr_func_idx' = CallerFunction
          ELSE /\ pc' = "returned"
               /\ result' = "Ok"
               /\ callstack' = <<>>
               /\ stack_top' = 0]_vars

\* A function that was called by a function has returned to it.
C28_Witness ==
    /\ pc = "run"
    /\ hist.op = OpReturn
    /\ hist.returned.depth = 3
    /\ Len(callstack) = 2
    /\ stack_top = hist.returned.slot + 1
    /\ At(stack, hist.returned.slot) = hist.returned.value
    /\ ip = callstack[2].ip
    /\ curr_func_idx # 0

(***************************************************************************)
(* Slot zero of a frame                                                     *)
(***************************************************************************)
\* The closures that are methods (initializers included) of a class.
MethodClosures == UNION {Range(heap.classes[k].methods) : k \in 1..Len(heap.classes)}

\* The value in the slot at the slot offset of a frame is an instance of a
\* class that has the closure of the frame as a method.
HoldsReceiver(frame) ==
    LET receiver == At(stack, frame.slot_offset)
    IN  /\ receiver.t = "InstanceIndex"
        /\ InRange(heap.instances, receiver.v)
        /\ InRange(heap.classes, At(heap.instances, receiver.v).class_idx)
        /\ ClosureIndex(frame.closure_idx) \in
               Range(At(heap.classes, At(heap.instances, receiver.v).class_idx).methods)

\* C29: while the run loop executes, the slot at the slot offset of every
\* frame of a method or of an initializer holds the receiver instance, and
\* the slot at the slot offset of every other frame holds the closure of the
\* frame.
C29_SlotZero ==
    pc = "run" =>
        \A k \in 1..Len(callstack) :
            /\ callstack[k].slot_offset >= 0
            /\ callstack[k].slot_offset < stack_top
            /\ InRange(stack, callstack[k].slot_offset)
            /\ IF ClosureIndex(callstack[k].closure_idx) \in MethodClosures
               THEN HoldsReceiver(callstack[k])
               ELSE At(stack, callstack[k].slot_offset) = ClosureIndex(callstack[k].closure_idx)

\* The run loop is in the initializer of an instance that main constructs:
\* slot zero of the initializer holds the instance, slot zero of main its
\* closure.
C29_Witness ==
    /\ pc = "run"
    /\ Len(callstack) = 2
    /\ 2 \in DOMAIN hist.construct
    /\ ip > 0
    /\ ClosureIndex(callstack[2].closure_idx) \in MethodClosures
    /\ At(stack, callstack[2].slot_offset) = InstanceIndex(hist.construct[2])
    /\ HoldsReceiver(callstack[2])
    /\ At(stack, callstack[1].slot_offset) = ClosureIndex(callstack[1].closure_idx)

(***************************************************************************)
(* The operands of Closure                                                  *)
(***************************************************************************)
\* The upvalue descriptors that the compiler of function f has recorded.
Descriptors(f) ==
    LET c == CHOOSE k \in 1..Len(parser.compilers) : parser.compilers[k].function_idx = f
    IN  parser.compilers[c].upvalues

\* The Closure at position i of a chunk names a function, and the bytes after
\* the constant are the pairs of the descriptors of that function, in order.
ClosurePairs(chunk, i, functions) ==
    /\ InRange(chunk.code, i + 1)
    /\ InRange(chunk.constants, At(chunk.code, i + 1))
    /\ At(chunk.constants, At(chunk.code, i + 1)).t = "FunctionIndex"
    /\ LET f == At(chunk.constants, At(chunk.code, i + 1)).v
       IN  /\ InRange(functions, f)
           /\ \E k \in 1..Len(parser.compilers) : parser.compilers[k].function_idx = f
           /\ At(functions, f).upvalue_count = Len(Descriptors(f))
           /\ \A k \in 1..Len(Descriptors(f)) :
                  /\ InRange(chunk.code, i + 2 * k + 1)
                  /\ At(chunk.code, i + 2 * k) = (IF Descriptors(f)[k].is_local THEN 1 ELSE 0)
                  /\ At(chunk.code, i + 2 * k + 1) = Descriptors(f)[k].index % U8

\* The instructions of a chunk end with a Return in its last byte, every
\* instruction starts with an opcode, and every Closure has its pairs.
ChunkClosures(chunk, functions) ==
    LET boundaries == Boundaries(chunk, 0, functions)
    IN  /\ Len(chunk.code) - 1 \in boundaries
        /\ At(chunk.code, Len(chunk.code) - 1) = OpReturn
        /\ \A i \in boundaries :
               /\ At(chunk.code, i) \in 0..OpInvoke
               /\ At(chunk.code, i) = OpClosure => ClosurePairs(chunk, i, functions)

\* The next turn of the run loop executes Closure.
ClosureNext ==
    /\ pc = "run"
    /\ ip_counter < MaxInstructions
    /\ Fetch.st = "run"
    /\ Fetch.ret = OpClosure

\* The function that the Closure at ip names.
ClosureFunction ==
    At(heap.functions,
       At(At(heap.functions, curr_func_idx).chunk.constants,
          At(At(heap.functions, curr_func_idx).chunk.code, ip + 1)).v)

\* C30: in every chunk of a program that compiled without an error, each
\* Closure is followed by one (is_local, index) pair for each upvalue
\* descriptor of its function, upvalue_count of them, and the next instruction
\* starts right after the last pair; the Closure arm of the run loop reads
\* the constant and that many pairs.
C30_ClosureOperands ==
    [][/\ CompiledWithoutError =>
              \A f \in DOMAIN parser.heap.functions :
                  ChunkClosures(parser.heap.functions[f].chunk, parser.heap.functions)
       /\ (ClosureNext /\ pc' = "run") =>
              /\ ip' = ip + 2 + 2 * ClosureFunction.upvalue_count
              /\ Len(heap'.closures) = Len(heap.closures) + 1
              /\ Len(heap'.closures[Len(heap'.closures)].upvalues)
                     = ClosureFunction.upvalue_count]_vars

\* The Closure of a function with two upvalue descriptors has been executed:
\* the code has the two pairs after it and the closure has two cells.
C30_Witness ==
    /\ mode = "batch"
    /\ input = ProgTwoUpvalues
    /\ pc = "run"
    /\ hist.op = OpClosure
    /\ Len(callstack) = 2
    /\ Len(heap.closures[Len(heap.closures)].upvalues) = 2
    /\ At(heap.functions, heap.closures[Len(heap.closures)].func_idx).upvalue_count = 2
    /\ At(heap.functions, curr_func_idx).chunk.code[ip - 3] = 1
    /\ At(heap.functions, curr_func_idx).chunk.code[ip - 1] = 1
    /\ At(At(heap.functions, curr_func_idx).chunk.code, ip - 6) = OpClosure

(***************************************************************************)
(* Scopes                                                                   *)
(***************************************************************************)
\* The names and the depths of a list of locals.
Declarations(locals) ==
    [k \in 1..Len(locals) |-> [name |-> locals[k].name, depth |-> locals[k].depth]]

\* end_scope has emitted one byte for each local that the scope declared, the
\* last local first, CloseValue for a captured local and Pop for any other,
\* and the locals are those of begin_scope again.
ScopeEnded(scope) ==
    /\ Len(scope.emitted) = Len(scope.declared)
    /\ \A k \in 1..Len(scope.declared) :
           scope.emitted[Len(scope.declared) + 1 - k] =
               (IF scope.declared[k].is_captured THEN OpCloseValue ELSE OpPop)
    /\ Declarations(scope.after) = Declarations(scope.before)

\* The scopes of the current function whose first or last byte is at ip.
ScopesAtIp ==
    {scope \in hist.compile.scopes :
         scope.function = curr_func_idx /\ ip \in {scope.entry, scope.exit}}

\* C31: end_scope emits one Pop or CloseValue for each local that was declared
\* in the scope, CloseValue exactly for the captured ones, and leaves the
\* locals of the compiler as they were at begin_scope; when the run loop is at
\* the entry or at the exit of a scope, the stack holds above the slot offset
\* of the frame exactly the locals of begin_scope.
C31_ScopeBalance ==
    /\ \A scope \in parser.scopes \cup hist.compile.scopes : ScopeEnded(scope)
    /\ (pc = "run" /\ callstack # <<>>) =>
           \A scope \in ScopesAtIp :
               stack_top - callstack[Len(callstack)].slot_offset = Len(scope.before)

\* The run loop is at the exit of a scope that declared two locals, one of
\* them captured, in a function that was called.
C31_Witness ==
    /\ pc = "run"
    /\ Len(callstack) = 2
    /\ \E scope \in ScopesAtIp :
           /\ ip = scope.exit
           /\ Len(scope.declared) = 2
           /\ scope.emitted = <<OpPop, OpCloseValue>>
           /\ stack_top - callstack[2].slot_offset = Len(scope.before)
           /\ Len(scope.before) = 2

(***************************************************************************)
(* The threshold of the collector                                           *)
(***************************************************************************)
\* C32: a collection runs only in the check after an instruction whose number
\* is a multiple of CHECK_GC_INTERVAL and only with bytes_allocated above
\* next_gc; after it next_gc is the larger of twice bytes_allocated and
\* INITIAL_SIZE; and next_gc is never below INITIAL_SIZE.
C32_NextGc ==
    [][/\ heap.next_gc >= INITIAL_SIZE
       /\ heap'.next_gc >= INITIAL_SIZE
       /\ hist'.gc = hist.gc + 1 =>
              /\ ip_counter % CHECK_GC_INTERVAL = 0
              /\ hist'.swept.bytes_allocated > hist'.swept.next_gc
              /\ heap'.next_gc = Max(heap'.bytes_allocated * GC_FACTOR, INITIAL_SIZE)]_vars

(***************************************************************************)
(* bytes_allocated                                                          *)
(***************************************************************************)
\* What the allocations of the objects that a heap stores have added.
StoredBytes(h) ==
    SizeOfString * (Cardinality(h.strings) + h.anonymous)
        + SizeOfFunction * Len(h.functions)
        + SizeOfNativeFn * Len(h.native_fns)
        + SizeOfClosure * Len(h.closures)
        + SizeOfClass * Len(h.classes)
        + SizeOfInstance * Len(h.instances)

\* C33: bytes_allocated is the sum, over the objects that the heap stores, of
\* what the allocation of each has added.
C33_BytesAllocated ==
    /\ heap.bytes_allocated = StoredBytes(heap)
    /\ pc = "compile" => parser.heap.bytes_allocated = StoredBytes(parser.heap)

(***************************************************************************)
(* Jumps over more than 65535 bytes.  A file with one `if` or one `while`    *)
(* whose body is a block of `nil;` statements; the compilation starts when  *)
(* the parser has closed the block.  Of the tokens of the file the parser   *)
(* keeps the keyword, the `}` it has consumed last and the Eof; `body` is   *)
(* the number of the statements between them.                               *)
(***************************************************************************)
\* The number of statements of the body at which the jump over the then
\* branch first covers more than 65535 bytes.
LongBody == 32766
BodyRange == 5

\* if (true) { nil; nil; ... }  and  while (true) { nil; nil; ... }
LongFile(keyword, body) ==
    [kind |-> "source", fill |-> 0, body |-> body,
     tokens |-> <<Tok(keyword), Tok("RightBrace"), Eof>>]

LongFiles ==
    {LongFile(keyword, body) :
         keyword \in {"If", "While"}, body \in (LongBody - BodyRange)..(LongBody + BodyRange)}

\* The code of main when the block is closed: the condition, the jump out
\* with its placeholder, the Pop, and Nil and Pop for each statement.
LongCode(body) ==
    <<OpTrue, OpJumpIfFalse, 255, 255, OpPop>>
        \o [k \in 1..(2 * body) |-> IF k % 2 = 1 THEN OpNil ELSE OpPop]

\* The parser of a file of LongFiles when statement() has returned from the
\* block: what is left of if_statement or of while_statement is to do.
AfterBody(h, file) ==
    LET start == compile(ParserNew(h, file.tokens))
    IN  [start EXCEPT
           !.i = Len(file.tokens) - 1,
           !.ret = TRUE,
           !.heap.functions[1].chunk.code = LongCode(file.body),
           !.jumps = {<<0, 2>>},
           !.scopes = {[function |-> 0, entry |-> 5, exit |-> 5 + 2 * file.body,
                        before |-> start.compilers[1].locals, declared |-> <<>>,
                        emitted |-> <<>>, after |-> start.compilers[1].locals]},
           !.todo = (IF file.tokens[1].type = "If"
                     THEN <<Frame("if_else", <<2>>)>>
                     ELSE <<EmitLoop(0), PatchJump(2), EmitByte(OpPop)>>)
                    \o <<Frame("declaration_end", <<>>)>> \o @]

InitJump ==
    /\ build \in {"debug", "release"}
    /\ mode = "batch"
    /\ input \in LongFiles
    /\ pc = "compile"
    /\ had_error = FALSE
    /\ exit_code = NoIndex
    /\ result = "none"
    /\ ip_counter = 0
    /\ LET m == init(VMNew(build))
       IN  /\ parser = AfterBody(m.heap, input)
           /\ ip = m.ip
           /\ stack = m.stack
           /\ stack_top = m.stack_top
           /\ callstack = m.callstack
           /\ globals = m.globals
           /\ heap = HeapNew
           /\ curr_func_idx = m.curr_func_idx
           /\ open_upvalues = m.open_upvalues
           /\ upvalues = m.upvalues
           /\ init_string_hash = m.init_string_hash
           /\ hist = m.hist

NextJump ==
    \/ ParseDeclaration
    \/ ParseStatement
    \/ ParseEmit
    \/ CompileEnd
    \/ RunFileBail

SpecJump == InitJump /\ [][NextJump]_vars

\* C34: when patch_jump or emit_loop writes the operand of a jump that has to
\* cover more than 65535 bytes, it reports a compile error.
C34_FarJumpReported ==
    pc = "compile" => \A jump \in parser.far : jump.reported

(***************************************************************************)
(* Chunk::add_constants on a constant the pool holds already                *)
(***************************************************************************)
Pools == {parser.heap.functions[f].chunk.constants : f \in DOMAIN parser.heap.functions}

\* C35: while a file or line is compiled, no constant pool holds two equal
\* values (a pool only grows at its end: in every state its last value is equal
\* to none before it), and the last call of add_constants with a value the pool
\* held already returned the index of that value and left the pool unchanged.
C35_AddConstantsIdempotent ==
    pc = "compile" =>
        /\ \A pool \in Pools : \A k \in 1..(Len(pool) - 1) :
                ~ValueEq(pool[k], pool[Len(pool)])
        /\ parser.added.existing # NoIndex =>
                /\ parser.added.index = parser.added.existing
                /\ parser.added.unchanged

(***************************************************************************)
(* The globals after reset_stack                                            *)
(***************************************************************************)
\* reset_stack has run, after a line of the REPL or in a runtime error, and the
\* heap is not with the compiler.
AfterReset == pc # "compile" /\ ((mode = "repl" /\ hist.lines > 0) \/ hist.error # "")

\* C36: after reset_stack, every heap handle that the globals map stores as a
\* value names an object that the heap still stores.
C36_GlobalsResolve ==
    AfterReset =>
        \A name \in DOMAIN globals :
            /\ Resolves(globals[name])
            /\ globals[name].t = "NativeFnIndex"
                  => InRange(heap.native_fns, globals[name].v)

(***************************************************************************)
(* The arguments of a native function                                       *)
(***************************************************************************)
\* The NativeValue of a value that may be passed to a native function.
NativeValueOf(value) ==
    IF value.t = "StringHash" THEN [t |-> "String", s |-> get_string_text(value.v)]
    ELSE [t |-> value.t, v |-> value.v]

\* C37: the native function called last received its arguments in the order
\* in which they were written, the first at index 0; and in the state after
\* the call its callee and arguments are replaced by the one returned value.
C37_NativeArguments ==
    hist.native.calls > 0 =>
        /\ hist.native.received
              = [k \in DOMAIN hist.native.written |-> NativeValueOf(hist.native.written[k])]
        /\ (hist.op = OpCall /\ pc = "run" /\ hist.error = "")
              => stack_top = hist.native.top - Len(hist.native.written)

(***************************************************************************)
(* JumpIfFalse on a value that is not a boolean                             *)
(***************************************************************************)
\* The next turn of the run loop executes JumpIfFalse.
JumpIfFalseNext ==
    /\ pc = "run"
    /\ ip_counter < MaxInstructions
    /\ Fetch.st = "run"
    /\ Fetch.ret = OpJumpIfFalse

\* C38: a turn of the run loop that executes JumpIfFalse, and runs no
\* collection, does not abort the VM: the run goes on with the stack as it
\* was, or it has ended with RuntimeError.
C38_JumpIfFalseDefined ==
    [][(JumpIfFalseNext /\ hist'.gc = hist.gc) =>
          \/ /\ pc' = "run"
             /\ stack' = stack
             /\ stack_top' = stack_top
          \/ /\ pc' = "returned"
             /\ result' = "RuntimeError"]_vars

(***************************************************************************)
(* return in a declared function                                            *)
(***************************************************************************)
\* C39: while a file or line is compiled, a return statement has been answered
\* with "Can't return from main." exactly if it is in the top-level script, not
\* in a declared function or method.
C39_ReturnInFunction ==
    pc = "compile" =>
        \A return \in parser.returns : return.from_main <=> return.function_type = "Main"

=============================================================================
